---- MODULE Spec2Model ----
(***************************************************************************)
(* A model of the meshcore-chat client (src/mesh): the history store, the  *)
(* timestamp parser, the inbound formatter, send_message and the event     *)
(* pipeline of MeshChatApp.run.                                            *)
(*                                                                         *)
(* Python strings are sequences of one-character strings.  A history file  *)
(* is the sequence of its text lines (without the line terminator); the    *)
(* history directory is a function from the stems of the *.log files that  *)
(* exist to their lines.  The filesystem is taken to work: the except      *)
(* branches around open/read/write are not taken in the specifications     *)
(* below.                                                                  *)
(***************************************************************************)
EXTENDS Integers, Sequences, FiniteSets, TLC

(***************************************************************************)
(* Strings                                                                 *)
(***************************************************************************)
Range(s) == {s[i] : i \in DOMAIN s}

\* F(v), with v evaluated once: TLC evaluates the definition of a LET and
\* the argument of an operator at each of its uses
Bind(v, F(_)) == CHOOSE y \in {F(x) : x \in {v}} : TRUE

\* str.isspace() on the characters of the model's alphabet
WhiteSpace == {" ", "\t", "\n"}

DigitChars == {"0", "1", "2", "3", "4", "5", "6", "7", "8", "9"}

DigitValue ==
  ("0" :> 0) @@ ("1" :> 1) @@ ("2" :> 2) @@ ("3" :> 3) @@ ("4" :> 4) @@
  ("5" :> 5) @@ ("6" :> 6) @@ ("7" :> 7) @@ ("8" :> 8) @@ ("9" :> 9)

DigitChar == <<"0", "1", "2", "3", "4", "5", "6", "7", "8", "9">>

\* s[a:b] of Python with 1-based inclusive bounds; empty when a > b
Slice(s, a, b) == IF a > b THEN <<>> ELSE SubSeq(s, a, b)

\* str.startswith
startswith(s, p) == Len(s) >= Len(p) /\ Slice(s, 1, Len(p)) = p

\* str.isdigit(): non-empty and all digits
isdigit(s) == s # <<>> /\ \A i \in DOMAIN s : s[i] \in DigitChars

RECURSIVE ToInt(_)
\* int(s) for a string of decimal digits
ToInt(s) ==
  IF s = <<>> THEN 0
  ELSE 10 * ToInt(Slice(s, 1, Len(s) - 1)) + DigitValue[s[Len(s)]]

\* str.strip(): drop leading and trailing whitespace
strip(s) ==
  LET keep == {i \in DOMAIN s : s[i] \notin WhiteSpace}
  IN  IF keep = {} THEN <<>>
      ELSE LET lo == CHOOSE i \in keep : \A j \in keep : i <= j
               hi == CHOOSE i \in keep : \A j \in keep : j <= i
           IN  SubSeq(s, lo, hi)

RECURSIVE SplitLines(_)
\* the text lines a file gains when written text ends with "\n":
\* SplitLines("a\nb") = <<"a", "b">>
SplitLines(s) ==
  LET nl == {i \in DOMAIN s : s[i] = "\n"}
  IN  IF nl = {} THEN <<s>>
      ELSE LET k == CHOOSE i \in nl : \A j \in nl : i <= j
           IN  <<Slice(s, 1, k - 1)>> \o SplitLines(Slice(s, k + 1, Len(s)))

(***************************************************************************)
(* TimestampParser                                                         *)
(***************************************************************************)
UpperChars ==
  <<"A", "B", "C", "D", "E", "F", "G", "H", "I", "J", "K", "L", "M",
    "N", "O", "P", "Q", "R", "S", "T", "U", "V", "W", "X", "Y", "Z">>

LowerChars ==
  <<"a", "b", "c", "d", "e", "f", "g", "h", "i", "j", "k", "l", "m",
    "n", "o", "p", "q", "r", "s", "t", "u", "v", "w", "x", "y", "z">>

Letters == Range(UpperChars) \cup Range(LowerChars)

lower(c) ==
  IF c \in Range(UpperChars)
  THEN LowerChars[CHOOSE i \in DOMAIN UpperChars : UpperChars[i] = c]
  ELSE c

upper(c) ==
  IF c \in Range(LowerChars)
  THEN UpperChars[CHOOSE i \in DOMAIN LowerChars : LowerChars[i] = c]
  ELSE c

lowerStr(s) == [i \in DOMAIN s |-> lower(s[i])]

\* str.capitalize()
capitalize(s) == [i \in DOMAIN s |-> IF i = 1 THEN upper(s[i]) ELSE lower(s[i])]

\* calendar.month_abbr and calendar.month_name of the C locale, lower case
MonthAbbr ==
  << <<"j","a","n">>, <<"f","e","b">>, <<"m","a","r">>, <<"a","p","r">>,
     <<"m","a","y">>, <<"j","u","n">>, <<"j","u","l">>, <<"a","u","g">>,
     <<"s","e","p">>, <<"o","c","t">>, <<"n","o","v">>, <<"d","e","c">> >>

MonthName ==
  << <<"j","a","n","u","a","r","y">>, <<"f","e","b","r","u","a","r","y">>,
     <<"m","a","r","c","h">>, <<"a","p","r","i","l">>, <<"m","a","y">>,
     <<"j","u","n","e">>, <<"j","u","l","y">>, <<"a","u","g","u","s","t">>,
     <<"s","e","p","t","e","m","b","e","r">>, <<"o","c","t","o","b","e","r">>,
     <<"n","o","v","e","m","b","e","r">>, <<"d","e","c","e","m","b","e","r">> >>

\* length of the longest prefix of s whose characters are all in set
RunLength(s, set) ==
  LET stop == {i \in DOMAIN s : s[i] \notin set}
  IN  IF stop = {} THEN Len(s)
      ELSE (CHOOSE i \in stop : \A j \in stop : i <= j) - 1

IsLeap(y) == (y % 4 = 0 /\ y % 100 # 0) \/ y % 400 = 0

DaysInMonth(y, m) ==
  IF m = 2 THEN (IF IsLeap(y) THEN 29 ELSE 28)
  ELSE IF m \in {4, 6, 9, 11} THEN 30 ELSE 31

\* the values the regular expression of a numeric directive accepts, by
\* the number of digits matched (_strptime.TimeRE)
DirectiveAccepts(d, txt) ==
  LET n == Len(txt)
      v == ToInt(txt)
  IN  CASE d = "d" -> (n = 1 /\ v >= 1) \/ (n = 2 /\ v >= 1 /\ v <= 31)
        [] d = "m" -> (n = 1 /\ v >= 1) \/ (n = 2 /\ v >= 1 /\ v <= 12)
        [] d = "y" -> n = 2
        [] d = "Y" -> n = 4
        [] d = "H" -> n = 1 \/ (n = 2 /\ v <= 23)
        [] d = "M" -> n = 1 \/ (n = 2 /\ v <= 59)
        [] d = "S" -> n = 1 \/ (n = 2 /\ v <= 61)

StrpFail == [ok |-> FALSE, f |-> <<>>]

RECURSIVE StrpFields(_, _, _)
\* match the string s against the directives of fmt, left to right; f
\* collects the value of each directive.  A blank in fmt is \s+, another
\* punctuation character is itself.
StrpFields(fmt0, s0, f0) ==
  Bind(<<fmt0, s0, f0>>, LAMBDA a :
  LET fmt == a[1]
      s   == a[2]
      f   == a[3]
  IN
  IF fmt = <<>> THEN (IF s = <<>> THEN [ok |-> TRUE, f |-> f] ELSE StrpFail)
  ELSE
    LET d == Head(fmt) IN
    IF d = " " THEN
      LET k == RunLength(s, WhiteSpace)
      IN  IF k = 0 THEN StrpFail
          ELSE StrpFields(Tail(fmt), Slice(s, k + 1, Len(s)), f)
    ELSE IF d \in {"-", "/", ":"} THEN
      IF s # <<>> /\ Head(s) = d
      THEN StrpFields(Tail(fmt), Tail(s), f)
      ELSE StrpFail
    ELSE IF d \in {"b", "B"} THEN
      LET k == RunLength(s, Letters)
          w == lowerStr(Slice(s, 1, k))
          names == IF d = "b" THEN MonthAbbr ELSE MonthName
          hit == {i \in DOMAIN names : names[i] = w}
      IN  IF hit = {} THEN StrpFail
          ELSE StrpFields(Tail(fmt), Slice(s, k + 1, Len(s)),
                          ("m" :> (CHOOSE i \in hit : TRUE)) @@ f)
    ELSE
      \* %d also accepts a blank followed by one digit 1-9
      LET sp  == IF d = "d" /\ s # <<>> /\ Head(s) = " " THEN 1 ELSE 0
          t   == Slice(s, sp + 1, Len(s))
          k   == RunLength(t, DigitChars)
          txt == Slice(t, 1, k)
      IN  IF k = 0 \/ k > 4 \/ ~DirectiveAccepts(d, txt) \/ (sp = 1 /\ k # 1)
          THEN StrpFail
          ELSE StrpFields(Tail(fmt), Slice(t, k + 1, Len(t)),
                          (d :> ToInt(txt)) @@ f))

None == [kind |-> "none", t |-> <<>>]
Raises == [kind |-> "raise", t |-> <<>>]
Instant(t) == [kind |-> "instant", t |-> t]

\* datetime.datetime.strptime(s, fmt): an instant <<Y, M, D, h, m, s>>, or
\* None where the code catches the ValueError
strptime(s, fmt) ==
  Bind(StrpFields(fmt, s, <<>>), LAMBDA r :
  IF ~r.ok THEN None
  ELSE LET f    == r.f
           year == IF "Y" \in DOMAIN f THEN f["Y"]
                   ELSE IF f["y"] >= 69 THEN 1900 + f["y"] ELSE 2000 + f["y"]
       IN  IF year < 1 \/ f["d"] > DaysInMonth(year, f["m"]) \/ f["S"] > 59
           THEN None
           ELSE Instant(<<year, f["m"], f["d"], f["H"], f["M"], f["S"]>>))

possible_formats ==
  << <<"d", "-", "b", "-", "y", " ", "H", ":", "M", ":", "S">>,
     <<"d", "-", "B", "-", "y", " ", "H", ":", "M", ":", "S">>,
     <<"m", "/", "d", "/", "y", " ", "H", ":", "M", ":", "S">>,
     <<"d", "/", "m", "/", "y", " ", "H", ":", "M", ":", "S">>,
     <<"Y", "-", "m", "-", "d", " ", "H", ":", "M", ":", "S">>,
     <<"m", "-", "d", "-", "Y", " ", "H", ":", "M", ":", "S">> >>

RECURSIVE SplitOn(_, _)
\* str.split(sep) for a one-character separator
SplitOn(s, sep) ==
  LET at == {i \in DOMAIN s : s[i] = sep}
  IN  IF at = {} THEN <<s>>
      ELSE LET k == CHOOSE i \in at : \A j \in at : i <= j
           IN  <<Slice(s, 1, k - 1)>> \o SplitOn(Slice(s, k + 1, Len(s)), sep)

RECURSIVE SplitWS(_)
\* str.split(): the maximal runs of non-whitespace characters
SplitWS(s) ==
  LET t == Slice(s, RunLength(s, WhiteSpace) + 1, Len(s))
      k == RunLength(t, Range(t) \ WhiteSpace)
  IN  IF t = <<>> THEN <<>>
      ELSE <<Slice(t, 1, k)>> \o SplitWS(Slice(t, k + 1, Len(t)))

\* str.zfill(2) of a string without a sign
zfill2(s) == IF Len(s) = 0 THEN <<"0", "0">> ELSE IF Len(s) = 1 THEN <<"0">> \o s ELSE s

\* the bracketed prefix: re.search(r'^\[([^\]]+)\]\s*(.*)', line).group(1),
\* <<>> when the line does not match
BracketContent(message_line) ==
  IF message_line = <<>> \/ Head(message_line) # "[" THEN <<>>
  ELSE LET rest == Tail(message_line)
           k    == RunLength(rest, Range(rest) \ {"]"})
       IN  IF k = 0 \/ k = Len(rest) THEN <<>> ELSE Slice(rest, 1, k)

\* a time-only branch that puts the time on a fixed day
TimeOnlyOnFixedDay(ts, today) ==
  LET p == SplitOn(ts, ":")
      shape == /\ Len(p) \in {2, 3}
               /\ \A i \in DOMAIN p : isdigit(p[i])
               /\ Len(p[1]) \in {1, 2}
               /\ \A i \in 2..Len(p) : Len(p[i]) = 2
  IN  IF ~shape THEN None
      ELSE IF ToInt(p[1]) > 23 \/ ToInt(p[2]) > 59 \/ (Len(p) = 3 /\ ToInt(p[3]) > 59)
      THEN Raises
      ELSE Instant(<<2026, 1, 17, ToInt(p[1]), ToInt(p[2]),
                     IF Len(p) = 3 THEN ToInt(p[3]) ELSE 0>>)

\* the time-only branch: re.match(r'^(\d{1,2}):(\d{2})(?::(\d{2}))?$', ts);
\* datetime.time(hour, minute, second) raises ValueError out of range and
\* nothing catches it
TimeOnly(ts, today) ==
  LET p == SplitOn(ts, ":")
      shape == /\ Len(p) \in {2, 3}
               /\ \A i \in DOMAIN p : isdigit(p[i])
               /\ Len(p[1]) \in {1, 2}
               /\ \A i \in 2..Len(p) : Len(p[i]) = 2
  IN  IF ~shape THEN None
      ELSE LET hour   == ToInt(p[1])
               minute == ToInt(p[2])
               second == IF Len(p) = 3 THEN ToInt(p[3]) ELSE 0
           IN  IF hour > 23 \/ minute > 59 \/ second > 59 THEN Raises
               ELSE Instant(<<today[1], today[2], today[3], hour, minute, second>>)

\* the hand-written DD-Mon-YY branch; every exception in it is swallowed
Manual(ts) ==
  IF ~("-" \in Range(ts) /\ Len(ts) >= 14) THEN None
  ELSE
    LET parts == SplitWS(ts) IN
    IF Len(parts) # 2 \/ "-" \notin Range(parts[1]) THEN None
    ELSE
      LET date_components == SplitOn(parts[1], "-") IN
      IF Len(date_components) # 3 THEN None
      ELSE
        LET day == date_components[1]
            cap == capitalize(date_components[2])
            year == date_components[3]
            hit == {i \in DOMAIN MonthAbbr : capitalize(MonthAbbr[i]) = cap}
        IN  \* int(year) raises, or "20" + year is no %Y, unless year is digits
            IF hit = {} \/ ~isdigit(year) \/ Len(year) > 4 THEN None
            ELSE
              LET month == CHOOSE i \in hit : TRUE
                  month_num == <<DigitChar[(month \div 10) + 1], DigitChar[(month % 10) + 1]>>
                  century == IF ToInt(year) < 50 THEN <<"2", "0">> ELSE <<"1", "9">>
                  formatted_datetime ==
                    century \o year \o <<"-">> \o month_num \o <<"-">> \o zfill2(day)
                      \o <<" ">> \o parts[2]
              IN  strptime(formatted_datetime, possible_formats[5])

RECURSIVE TryFormats(_, _)
TryFormats(ts, i) ==
  IF i > Len(possible_formats) THEN None
  ELSE Bind(strptime(ts, possible_formats[i]), LAMBDA r :
         IF r.kind = "instant" THEN r ELSE TryFormats(ts, i + 1))

\* parse_message_timestamp(message_line), with date.today() = today
parse_message_timestamp(message_line, today) ==
  Bind(BracketContent(message_line), LAMBDA ts :
    IF ts = <<>> THEN None
    ELSE Bind(TryFormats(ts, 1), LAMBDA r :
           IF r.kind = "instant" THEN r
           ELSE Bind(TimeOnly(ts, today), LAMBDA t :
                  IF t.kind # "none" THEN t ELSE Manual(ts))))

(***************************************************************************)
(* Bounds                                                                  *)
(***************************************************************************)
\* lines of the history file in the initial states of SpecStore
MaxFileLines == 2
\* save_to_history calls in one behaviour of SpecStore
MaxSaves == 2
\* lines of the first history file in the initial states of SpecLoad
MaxLoadLines == 2

VARIABLES
  files,                \* history directory: stem of each *.log |-> its lines
  files0,               \* the history directory of the initial state
  last,                 \* the last history operation and what it saw
  output,               \* the output view: the texts given to append_output
  recent_channels,      \* messages.recent_channels
  recent_users,         \* messages.recent_users
  now,                  \* seconds of the wall clock since BaseInstant
  mc_channels,          \* mc.channels: the channel names by index (0-based)
  run_pc,               \* where MeshChatApp.run is
  ui_pc,                \* the prompt_toolkit application (ui_task)
  exit_pc,              \* the Ctrl-C / Ctrl-Q key handler
  processing_messages,  \* self.processing_messages
  message_queue,        \* self.message_queue
  consumer_pc,          \* process_message_queue (msg_task)
  enqueued,             \* every event handle_message has put, in order
  dispatched,           \* every event given to process_event_message, in order
  stop_mark,            \* the queue and the dispatch count when Ctrl-C was pressed
  inputs,               \* the texts the user has entered, in order
  sends,                \* the send_message calls: task |-> its locals
  sent                  \* the send_chan_msg commands issued to the device

histVars == <<files, files0, last, output, recent_channels, recent_users, now>>
appVarsButTable == <<run_pc, ui_pc, exit_pc, processing_messages, message_queue,
                     consumer_pc, enqueued, dispatched, stop_mark, inputs>>
appVars  == <<mc_channels, appVarsButTable>>
sendVars == <<sends, sent>>
vars == <<histVars, appVars, sendVars>>

NoOp == [op |-> "none"]

(***************************************************************************)
(* Sample transcript lines                                                 *)
(***************************************************************************)
\* "[17-Jan-26 22:46:29] #g: [al] hi"
LineA ==
  <<"[","1","7","-","J","a","n","-","2","6"," ","2","2",":","4","6",":","2",
    "9","]"," ","#","g",":"," ","[","a","l","]"," ","h","i">>

\* "[17-Jan-26 22:46:30] #g: [bo] yo"
LineB ==
  <<"[","1","7","-","J","a","n","-","2","6"," ","2","2",":","4","6",":","3",
    "0","]"," ","#","g",":"," ","[","b","o","]"," ","y","o">>

\* "[2026-01-17 22:46:29] #p: [cy] hi"
LineIso ==
  <<"[","2","0","2","6","-","0","1","-","1","7"," ","2","2",":","4","6",":",
    "2","9","]"," ","#","p",":"," ","[","c","y","]"," ","h","i">>

\* "[22:46] #g: [al] t"
LineTime ==
  <<"[","2","2",":","4","6","]"," ","#","g",":"," ","[","a","l","]"," ","t">>

\* "[25:00] #g: [al] x"
LineBadTime ==
  <<"[","2","5",":","0","0","]"," ","#","g",":"," ","[","a","l","]"," ","x">>

\* "junk"
LineJunk ==
  <<"j","u","n","k">>

(***************************************************************************)
(* HistoryStore                                                            *)
(***************************************************************************)
\* the set the code builds from a file: stripped, non-empty lines
ExistingMessages(fs, channel_name) ==
  IF channel_name \in DOMAIN fs
  THEN {strip(l) : l \in Range(fs[channel_name])} \ {<<>>}
  ELSE {}

\* save_to_history: append message + "\n" unless it is in the set of
\* stripped lines already in the file
save_to_history(fs, channel_name, message) ==
  LET old == IF channel_name \in DOMAIN fs THEN fs[channel_name] ELSE <<>>
  IN  IF message \notin ExistingMessages(fs, channel_name)
      THEN (channel_name :> (old \o SplitLines(message))) @@ fs
      ELSE fs

RECURSIVE UniqueLines(_, _)
\* the loop of remove_duplicate_messages over the lines still to read,
\* with the set seen so far
UniqueLines(lines, seen) ==
  IF lines = <<>> THEN <<>>
  ELSE LET line == strip(Head(lines))
       IN  IF line # <<>> /\ line \notin seen
           THEN <<line>> \o UniqueLines(Tail(lines), seen \cup {line})
           ELSE UniqueLines(Tail(lines), seen)

RECURSIVE UniqueLinesKeepLast(_, _)
UniqueLinesKeepLast(lines, seen) ==
  IF lines = <<>> THEN <<>>
  ELSE LET line == strip(lines[Len(lines)])
           rest == Slice(lines, 1, Len(lines) - 1)
       IN  IF line # <<>> /\ line \notin seen
           THEN UniqueLinesKeepLast(rest, seen \cup {line}) \o <<line>>
           ELSE UniqueLinesKeepLast(rest, seen)

remove_duplicate_messages_keeplast(fs, channel_name) ==
  IF channel_name \notin DOMAIN fs THEN fs
  ELSE (channel_name :> UniqueLinesKeepLast(fs[channel_name], {})) @@ fs

\* remove_duplicate_messages: rewrite the file with the first occurrence of
\* each stripped non-empty line; nothing happens when the file is absent
remove_duplicate_messages(fs, channel_name) ==
  IF channel_name \notin DOMAIN fs THEN fs
  ELSE (channel_name :> UniqueLines(fs[channel_name], {})) @@ fs

\* load_history_from_file: the stripped, non-empty lines of the file
load_history_from_file(fs, channel_name) ==
  IF channel_name \notin DOMAIN fs THEN <<>>
  ELSE SelectSeq([i \in DOMAIN fs[channel_name] |-> strip(fs[channel_name][i])],
                 LAMBDA l : l # <<>>)

\* datetime comparison
Before(a, b) ==
  \E i \in 1..6 : a[i] < b[i] /\ \A j \in 1..(i - 1) : a[j] = b[j]

RECURSIVE InsertLast(_, _)
\* e goes behind every element whose key is not greater than its own
InsertLast(sorted0, e0) ==
  Bind(<<sorted0, e0>>, LAMBDA a :
    LET sorted == a[1]
        e      == a[2]
    IN  IF sorted = <<>> THEN <<e>>
        ELSE IF Before(e.t, Head(sorted).t) THEN <<e>> \o sorted
        ELSE <<Head(sorted)>> \o InsertLast(Tail(sorted), e))

RECURSIVE SortByTimestamp(_)
\* list.sort(key=lambda x: x[0]): stable
SortByTimestamp(seq0) ==
  Bind(seq0, LAMBDA seq :
    IF seq = <<>> THEN <<>>
    ELSE InsertLast(SortByTimestamp(Slice(seq, 1, Len(seq) - 1)), seq[Len(seq)]))

NoMatch == [ok |-> FALSE, channel |-> <<>>, user |-> <<>>]

\* what follows "] #" in the pattern: ([^:]+):\s*\[([^\]]+)\].*
MatchTail(rest) ==
  LET k == RunLength(rest, Range(rest) \ {":"}) IN
  IF k = 0 \/ k = Len(rest) THEN NoMatch
  ELSE LET a  == Slice(rest, k + 2, Len(rest))
           b  == Slice(a, RunLength(a, WhiteSpace) + 1, Len(a))
       IN  IF b = <<>> \/ Head(b) # "[" THEN NoMatch
           ELSE LET c == Tail(b)
                    u == RunLength(c, Range(c) \ {"]"})
                IN  IF u = 0 \/ u = Len(c) THEN NoMatch
                    ELSE [ok |-> TRUE, channel |-> Slice(rest, 1, k),
                          user |-> Slice(c, 1, u)]

\* re.match(r'^\[.+\] #([^:]+):\s*\[([^\]]+)\].*', msg): the greedy .+ takes
\* the last "] #" after which the rest of the pattern matches
HistoryLineMatch(msg) ==
  Bind({p \in 3..(Len(msg) - 2) :
          /\ msg[1] = "["
          /\ msg[p] = "]" /\ msg[p + 1] = " " /\ msg[p + 2] = "#"
          /\ \A i \in 2..(p - 1) : msg[i] # "\n"
          /\ MatchTail(Slice(msg, p + 3, Len(msg))).ok},
       LAMBDA cand :
         IF cand = {} THEN NoMatch
         ELSE MatchTail(Slice(msg, (CHOOSE p \in cand : \A q \in cand : q <= p) + 3,
                              Len(msg))))

\* the names one replayed line adds to recent_channels
ReplayChannels(msg) ==
  Bind(HistoryLineMatch(msg), LAMBDA m :
    IF ~m.ok THEN {}
    ELSE {m.channel,
          IF startswith(m.channel, <<"#">>) THEN m.channel ELSE <<"#">> \o m.channel})

ReplayUsers(msg) ==
  Bind(HistoryLineMatch(msg), LAMBDA m : IF m.ok THEN {m.user} ELSE {})

RECURSIVE Encounter(_, _, _)
\* the lines of the files of order, file after file, each with its parsed
\* timestamp
Encounter(fs, order, today) ==
  IF order = <<>> THEN <<>>
  ELSE Bind(load_history_from_file(fs, Head(order)), LAMBDA msgs :
         [i \in DOMAIN msgs |->
            [p |-> parse_message_timestamp(msgs[i], today), msg |-> msgs[i]]])
       \o Encounter(fs, Tail(order), today)

\* load_all_history with log_files in the order the glob gave them.  An
\* exception out of parse_message_timestamp leaves the function before
\* anything is emitted.
load_all_history(fs, order, today) ==
  Bind(Encounter(fs, order, today), LAMBDA enc :
    IF \E i \in DOMAIN enc : enc[i].p.kind = "raise"
    THEN [raised |-> TRUE, emitted |-> <<>>, channels |-> {}, users |-> {}]
    ELSE
      Bind(SortByTimestamp(
             SelectSeq([i \in DOMAIN enc |-> [t |-> enc[i].p.t, msg |-> enc[i].msg,
                                              kind |-> enc[i].p.kind]],
                       LAMBDA e : e.kind = "instant")),
           LAMBDA sorted :
             [raised |-> FALSE,
              emitted |-> [i \in DOMAIN sorted |-> sorted[i].msg],
              channels |-> UNION {ReplayChannels(sorted[i].msg) : i \in DOMAIN sorted},
              users |-> UNION {ReplayUsers(sorted[i].msg) : i \in DOMAIN sorted}]))

\* the orders in which Path.glob may list a set of files
Orders(S) ==
  {o \in [1..Cardinality(S) -> S] : \A i, j \in DOMAIN o : i # j => o[i] # o[j]}

(***************************************************************************)
(* States in which the application and send_message are not running        *)
(***************************************************************************)
NoMark == [set |-> FALSE, queue |-> <<>>, count |-> 0]

AppIdle ==
  /\ run_pc = "idle"
  /\ ui_pc = "idle"
  /\ exit_pc = "idle"
  /\ processing_messages = FALSE
  /\ message_queue = <<>>
  /\ consumer_pc = "idle"
  /\ enqueued = <<>>
  /\ dispatched = <<>>
  /\ stop_mark = NoMark
  /\ inputs = <<>>

SendIdle == sends = <<>> /\ sent = <<>>

\* the sequences over S of length at most n
BoundedSeq(S, n) == UNION {[1..k -> S] : k \in 0..n}

NameG == <<"g">>
NameP == <<"p">>

(***************************************************************************)
(* SpecStore: save_to_history and remove_duplicate_messages on a history   *)
(* directory whose file g.log is absent or holds any lines                 *)
(***************************************************************************)
\* "[17-Jan-26 22:46:29] #g: [al] hi ": the text ends with a blank
LineATrail == LineA \o <<" ">>

StoreMessages == {LineA, LineATrail, LineB}
StoreLines == StoreMessages \cup {<<>>}
StoreNames == {NameG, NameP}

TotalLines(fs) ==
  LET RECURSIVE Sum(_)
      Sum(S) == IF S = {} THEN 0
                ELSE LET n == CHOOSE x \in S : TRUE IN Len(fs[n]) + Sum(S \ {n})
  IN  Sum(DOMAIN fs)

StoreInit ==
  /\ files0 \in {<<>>} \cup {(NameG :> ls) : ls \in BoundedSeq(StoreLines, MaxFileLines)}
  /\ files = files0
  /\ last = NoOp
  /\ output = <<>>
  /\ recent_channels = {}
  /\ recent_users = {}
  /\ now = 0
  /\ mc_channels = <<>>
  /\ AppIdle
  /\ SendIdle

SaveToHistory(channel_name, message) ==
  /\ TotalLines(files) < MaxFileLines + MaxSaves
  /\ files' = save_to_history(files, channel_name, message)
  /\ last' = [op |-> "save", name |-> channel_name, message |-> message,
              before |-> files]
  /\ UNCHANGED <<files0, output, recent_channels, recent_users, now, appVars, sendVars>>

RemoveDuplicateMessages(channel_name) ==
  /\ files' = remove_duplicate_messages(files, channel_name)
  /\ last' = [op |-> "dedupe", name |-> channel_name, before |-> files]
  /\ UNCHANGED <<files0, output, recent_channels, recent_users, now, appVars, sendVars>>

\* clean_history_files: remove_duplicate_messages on every *.log
clean_history_files(fs) ==
  [n \in DOMAIN fs |-> remove_duplicate_messages(fs, n)[n]]

CleanHistoryFiles ==
  /\ files' = clean_history_files(files)
  /\ last' = [op |-> "clean", before |-> files]
  /\ UNCHANGED <<files0, output, recent_channels, recent_users, now, appVars, sendVars>>

StoreNext ==
  \/ \E m \in StoreMessages : SaveToHistory(NameG, m)
  \/ \E n \in StoreNames : RemoveDuplicateMessages(n)
  \/ CleanHistoryFiles

SpecStore == StoreInit /\ [][StoreNext]_vars

(***************************************************************************)
(* SpecLoad: the history directory is replayed, or written, and may fail   *)
(***************************************************************************)
\* the last line is LineA with a quoted line as text:
\* "[17-Jan-26 22:46:29] #g: [al] hi [1] #p: [bo]"
LoadLines ==
  {LineA, LineB, LineIso, LineTime, LineBadTime, LineJunk,
   LineA \o <<" ", "[", "1", "]", " ", "#", "p", ":", " ", "[", "b", "o", "]">>}

\* date.today() during the replay
Dates == {<<2026, 1, 17>>, <<2026, 1, 18>>}

LoadInit ==
  /\ files0 \in
       {<<>>} \cup
       {(NameG :> ls) : ls \in BoundedSeq(LoadLines, MaxLoadLines)} \cup
       {(NameG :> ls) @@ (NameP :> lp) :
          ls \in BoundedSeq(LoadLines, MaxLoadLines), lp \in BoundedSeq(LoadLines, 1)}
  /\ files = files0
  /\ last = NoOp
  /\ output = <<>>
  /\ recent_channels = {}
  /\ recent_users = {}
  /\ now = 0
  /\ mc_channels = <<>>
  /\ AppIdle
  /\ SendIdle

LoadAllHistory(order, today) ==
  \E r \in {load_all_history(files, order, today)} :
  /\ last.op = "none"
  /\ output' = output \o r.emitted
  /\ recent_channels' = recent_channels \cup r.channels
  /\ recent_users' = recent_users \cup r.users
  /\ last' = [op |-> "load", before |-> files, order |-> order, today |-> today,
              raised |-> r.raised, emitted |-> r.emitted]
  /\ UNCHANGED <<files, files0, now, appVars, sendVars>>

\* load_all_history when reading the file bad fails after read of its lines
\* (at open when read = 0): load_history_from_file catches the exception
\* and returns the lines it has appended so far
LoadAllHistoryReadError(order, today, bad, read) ==
  \E r \in {load_all_history([files EXCEPT ![bad] = SubSeq(@, 1, read)], order, today)} :
  /\ last.op = "none"
  /\ output' = output \o r.emitted
  /\ recent_channels' = recent_channels \cup r.channels
  /\ recent_users' = recent_users \cup r.users
  /\ last' = [op |-> "load_read_error", before |-> files, order |-> order,
              today |-> today, bad |-> bad, read |-> read,
              raised |-> r.raised, emitted |-> r.emitted]
  /\ UNCHANGED <<files, files0, now, appVars, sendVars>>

\* save_to_history when the file system fails: history_dir.mkdir raises
\* (no directory and none can be made) and nothing catches it; the read
\* for the duplicate check fails after read lines and the message is
\* compared with those; open(log_file, "a") or the write fails and the
\* exception is caught
SaveToHistoryFails(channel_name, message, fault, read) ==
  /\ last.op = "none"
  /\ \/ fault = "mkdir" /\ files = <<>> /\ read = 0
     \/ fault = "read" /\ channel_name \in DOMAIN files /\ read < Len(files[channel_name])
     \/ fault = "write" /\ read = 0
  /\ files' =
       IF fault = "read"
       THEN IF message \notin ExistingMessages([files EXCEPT ![channel_name] = SubSeq(@, 1, read)],
                                              channel_name)
            THEN [files EXCEPT ![channel_name] = @ \o SplitLines(message)]
            ELSE files
       ELSE files
  /\ last' = [op |-> "save_error", name |-> channel_name, message |-> message,
              before |-> files, fault |-> fault, raised |-> (fault = "mkdir")]
  /\ UNCHANGED <<files0, output, recent_channels, recent_users, now, appVars, sendVars>>

LoadNext ==
  \/ \E order \in Orders(DOMAIN files), today \in Dates : LoadAllHistory(order, today)
  \/ \E order \in Orders(DOMAIN files), today \in Dates, bad \in DOMAIN files :
       \E read \in 0..(Len(files[bad]) - 1) :
         LoadAllHistoryReadError(order, today, bad, read)
  \/ \E message \in StoreMessages, fault \in {"mkdir", "read", "write"}, read \in 0..MaxLoadLines :
       SaveToHistoryFails(NameG, message, fault, read)

SpecLoad == LoadInit /\ [][LoadNext]_vars

(***************************************************************************)
(* Claims on the history store                                             *)
(***************************************************************************)
NoRepeat(lines) == \A i, j \in DOMAIN lines : i # j => lines[i] # lines[j]

\* C1 (as claimed): when a history file was absent or free of duplicates at
\* the start, no line occurs twice in it after any sequence of
\* save_to_history calls.
C1_NoDuplicateLines ==
  \A n \in DOMAIN files :
    (n \in DOMAIN files0 => NoRepeat(files0[n])) => NoRepeat(files[n])

\* the elements of a set of indices in ascending order
Ascending(K) ==
  [k \in 1..Cardinality(K) |->
     CHOOSE i \in K : Cardinality({j \in K : j < i}) = k - 1]

\* the lines at the first occurrence of each distinct line, in order
FirstOccurrences(lines) ==
  LET K == {i \in DOMAIN lines : \A j \in 1..(i - 1) : lines[j] # lines[i]}
  IN  [k \in 1..Cardinality(K) |-> lines[Ascending(K)[k]]]

ExpectedReplay(fs, order, today) ==
  Bind(Encounter(fs, order, today), LAMBDA enc :
    LET P == {i \in DOMAIN enc : enc[i].p.kind = "instant"}
        rank(i) == 1 + Cardinality({j \in P : \/ Before(enc[j].p.t, enc[i].p.t)
                                              \/ (enc[j].p.t = enc[i].p.t /\ j < i)})
    IN  [k \in 1..Cardinality(P) |-> enc[CHOOSE i \in P : rank(i) = k].msg])

\* C3 (as claimed): load_all_history emits exactly the lines whose timestamp
\* parses, in non-decreasing timestamp order, ties in file-then-line order.
C3_ReplayIsSortedParseable ==
  last.op = "load" =>
    last.emitted = ExpectedReplay(last.before, last.order, last.today)

(***************************************************************************)
(* Texts of the user interface                                             *)
(***************************************************************************)
\* the colour escape sequences of mesh.constants, each one character here
ANSI_BCYAN == <<"<BCYAN>">>
ANSI_GREEN == <<"<GREEN>">>
ANSI_BLUE  == <<"<BLUE>">>
ANSI_BRED  == <<"<BRED>">>
ANSI_END   == <<"<END>">>

\* the string literals of messages.py
MessagesText ==
  [ \* "Unknown"
   Unknown |-> <<"U","n","k","n","o","w","n">>,
    \* "private"
   private |-> <<"p","r","i","v","a","t","e">>,
    \* "Me"
   Me |-> <<"M","e">>,
    \* "Event does not contain message."
   EventNoMessage |-> <<"E","v","e","n","t"," ","d","o","e","s"," ","n","o",
       "t"," ","c","o","n","t","a","i","n"," ","m","e","s","s","a","g","e",
       ".">>,
    \* "Error retrieving messages: "
   ErrorRetrieving |-> <<"E","r","r","o","r"," ","r","e","t","r","i","e",
       "v","i","n","g"," ","m","e","s","s","a","g","e","s",":"," ">>,
    \* "Error: Channel '"
   ErrorChannel |-> <<"E","r","r","o","r",":"," ","C","h","a","n","n","e",
       "l"," ","'">>,
    \* "' not found"
   NotFound |-> <<"'"," ","n","o","t"," ","f","o","u","n","d">>,
    \* "Available channels: "
   AvailableChannels |-> <<"A","v","a","i","l","a","b","l","e"," ","c","h",
       "a","n","n","e","l","s",":"," ">>,
    \* "Recent users: "
   RecentUsers |-> <<"R","e","c","e","n","t"," ","u","s","e","r","s",":"," ">>,
    \* "Error sending message: "
   ErrorSending |-> <<"E","r","r","o","r"," ","s","e","n","d","i","n","g",
       " ","m","e","s","s","a","g","e",":"," ">> ]

\* the string literals of meshchat.py
AppText ==
  [ \* "Shutting down MeshChat..."
   ShuttingDown |-> <<"S","h","u","t","t","i","n","g"," ","d","o","w","n",
       " ","M","e","s","h","C","h","a","t",".",".",".">>,
    \* "Hint: Use format #channel: message to send messages"
   Hint |-> <<"H","i","n","t",":"," ","U","s","e"," ","f","o","r","m","a",
       "t"," ","#","c","h","a","n","n","e","l",":"," ","m","e","s","s","a",
       "g","e"," ","t","o"," ","s","e","n","d"," ","m","e","s","s","a","g",
       "e","s">>,
    \* "Invalid format. Use: #channel_name: message or @contact_name: message"
   InvalidFormat |-> <<"I","n","v","a","l","i","d"," ","f","o","r","m","a",
       "t","."," ","U","s","e",":"," ","#","c","h","a","n","n","e","l","_",
       "n","a","m","e",":"," ","m","e","s","s","a","g","e"," ","o","r"," ",
       "@","c","o","n","t","a","c","t","_","n","a","m","e",":"," ","m","e",
       "s","s","a","g","e">>,
    \* "MESHCORE MESSENGER CLIENT"
   Header |-> <<"M","E","S","H","C","O","R","E"," ","M","E","S","S","E","N",
       "G","E","R"," ","C","L","I","E","N","T">>,
    \* "Connecting to meshcore device at "
   Connecting |-> <<"C","o","n","n","e","c","t","i","n","g"," ","t","o"," ",
       "m","e","s","h","c","o","r","e"," ","d","e","v","i","c","e"," ","a",
       "t"," ">>,
    \* "Failed to connect to device: "
   FailedConnect |-> <<"F","a","i","l","e","d"," ","t","o"," ","c","o","n",
       "n","e","c","t"," ","t","o"," ","d","e","v","i","c","e",":"," ">>,
    \* "Error while querying device: "
   ErrorQuery |-> <<"E","r","r","o","r"," ","w","h","i","l","e"," ","q","u",
       "e","r","y","i","n","g"," ","d","e","v","i","c","e",":"," ">>,
    \* "Connected to "
   ConnectedTo |-> <<"C","o","n","n","e","c","t","e","d"," ","t","o"," ">>,
    \* "Loaded "
   Loaded |-> <<"L","o","a","d","e","d"," ">>,
    \* " channels"
   channels |-> <<" ","c","h","a","n","n","e","l","s">>,
    \* "Error loading channels: "
   ErrorLoadingChannels |-> <<"E","r","r","o","r"," ","l","o","a","d","i",
       "n","g"," ","c","h","a","n","n","e","l","s",":"," ">>,
    \* "Loading message history from files..."
   LoadingHistory |-> <<"L","o","a","d","i","n","g"," ","m","e","s","s","a",
       "g","e"," ","h","i","s","t","o","r","y"," ","f","r","o","m"," ","f",
       "i","l","e","s",".",".",".">> ]

\* the text of an exception or of a device response inside an f-string
Interpolated == <<"{...}">>

Cyan(text) == ANSI_BCYAN \o text \o ANSI_END
Red(text)  == ANSI_BRED \o text \o ANSI_END

RECURSIVE IntToStr(_)
\* str(n)
IntToStr(n) ==
  IF n < 0 THEN <<"-">> \o IntToStr(-n)
  ELSE IF n < 10 THEN <<DigitChar[n + 1]>>
  ELSE IntToStr(n \div 10) \o <<DigitChar[(n % 10) + 1]>>

\* %d, %y, %H, %M and %S of strftime: two digits
Pad2(n) == <<DigitChar[((n \div 10) % 10) + 1], DigitChar[(n % 10) + 1]>>

\* the wall clock when the application starts
BaseInstant == <<2026, 1, 17, 22, 46, 29>>

\* datetime.datetime.now(), t seconds after BaseInstant (within the hour)
Clock(t) ==
  <<BaseInstant[1], BaseInstant[2], BaseInstant[3], BaseInstant[4],
    BaseInstant[5] + ((BaseInstant[6] + t) \div 60), (BaseInstant[6] + t) % 60>>

\* strftime("%d-%b-%y %H:%M:%S")
strftime(i) ==
  Pad2(i[3]) \o <<"-">> \o capitalize(MonthAbbr[i[2]]) \o <<"-">> \o Pad2(i[1] % 100)
  \o <<" ">> \o Pad2(i[4]) \o <<":">> \o Pad2(i[5]) \o <<":">> \o Pad2(i[6])

\* f"[{timestamp}] {display_channel_name}: [{sender}] {text}"
TranscriptLine(timestamp, display_channel_name, sender, text) ==
  <<"[">> \o timestamp \o <<"]", " ">> \o display_channel_name \o <<":", " ", "[">>
  \o sender \o <<"]", " ">> \o text

\* the coloured rendering of the same line for the output view
ColoredLine(timestamp, display_channel_name, sender, text) ==
  ANSI_BCYAN \o <<"[">> \o timestamp \o <<"]">> \o ANSI_END \o <<" ">>
  \o ANSI_GREEN \o display_channel_name \o <<":">> \o ANSI_END \o <<" ">>
  \o ANSI_BLUE \o <<"[">> \o sender \o <<"]">> \o ANSI_END \o <<" ">>
  \o text \o ANSI_END

\* a display name that always gets a '#' in front
DisplayNameAlwaysPrefixed(channel_name) == <<"#">> \o channel_name

\* channel_name if channel_name.startswith('#') else f"#{channel_name}"
DisplayName(channel_name) ==
  IF startswith(channel_name, <<"#">>) THEN channel_name ELSE <<"#">> \o channel_name

(***************************************************************************)
(* MessageFormatter: process_event_message                                 *)
(***************************************************************************)
\* the contacts the device knows: public key and advertised name
Contacts ==
  {[public_key |-> <<"k","1","a","b","c","d","e","f","0","1","2","3","4","5">>,
    adv_name |-> <<"b","o">>]}

\* mc.get_contact_by_key_prefix(prefix): the contacts whose key starts with it
get_contact_by_key_prefix(prefix) ==
  {c \in Contacts : startswith(c.public_key, prefix)}

\* the name of the channel a CHAN event came through: the table entry at
\* data['channel_idx'] (Python indexing: a negative index counts from the end)
\* when the table has a non-empty name there, f"ch{idx}" otherwise
ChannelNameOf(channels, idx) ==
  LET n == Len(channels) IN
  IF n = 0 \/ idx >= n \/ idx < -n THEN <<"c", "h">> \o IntToStr(idx)
  ELSE LET actual_name == channels[(IF idx < 0 THEN idx + n ELSE idx) + 1]
       IN  IF actual_name # <<>> THEN actual_name ELSE <<"c", "h">> \o IntToStr(idx)

\* a resolution that asks the contact directory before the name field
SenderOfContactFirst(data) ==
  IF "pubkey_prefix" \in DOMAIN data /\ get_contact_by_key_prefix(data.pubkey_prefix) # {}
  THEN [sender |-> (CHOOSE c \in get_contact_by_key_prefix(data.pubkey_prefix) : TRUE).adv_name,
        users |-> {(CHOOSE c \in get_contact_by_key_prefix(data.pubkey_prefix) : TRUE).adv_name}]
  ELSE IF "name" \in DOMAIN data /\ data.name # <<>>
  THEN [sender |-> data.name, users |-> {data.name}]
  ELSE IF "pubkey_prefix" \in DOMAIN data
  THEN [sender |-> Slice(data.pubkey_prefix, 1,
                         IF Len(data.pubkey_prefix) < 12
                         THEN Len(data.pubkey_prefix) ELSE 12),
        users |-> {}]
  ELSE [sender |-> MessagesText.Unknown, users |-> {}]

\* the sender of an event and the names it adds to recent_users: the name
\* field, else the contact of pubkey_prefix, else the first twelve
\* characters of the prefix, else "Unknown"
SenderOf(data) ==
  IF "name" \in DOMAIN data /\ data.name # <<>>
  THEN [sender |-> data.name, users |-> {data.name}]
  ELSE IF "pubkey_prefix" \in DOMAIN data
  THEN LET ct == get_contact_by_key_prefix(data.pubkey_prefix) IN
       IF ct = {}
       THEN [sender |-> Slice(data.pubkey_prefix, 1,
                              IF Len(data.pubkey_prefix) < 12
                              THEN Len(data.pubkey_prefix) ELSE 12),
             users |-> {}]
       ELSE [sender |-> (CHOOSE c \in ct : TRUE).adv_name,
             users |-> {(CHOOSE c \in ct : TRUE).adv_name}]
  ELSE [sender |-> MessagesText.Unknown, users |-> {}]

\* the position of the first ": " in text, 0 when there is none
FindColonSpace(text) ==
  LET at == {i \in 1..(Len(text) - 1) : text[i] = ":" /\ text[i + 1] = " "}
  IN  IF at = {} THEN 0 ELSE CHOOSE i \in at : \A j \in at : i <= j

\* c.isalnum() or c in '@._-'
NameChar(c) == c \in Letters \cup DigitChars \cup {"@", ".", "_", "-"}

\* sender and text of a channel message whose sender is still "Unknown":
\* "Name: message" gives Name when it has at most 30 characters, one of
\* them a name character
SenderFromText(sender, text) ==
  LET k == FindColonSpace(text)
      potential_sender == Slice(text, 1, k - 1)
  IN  IF /\ k > 0
         /\ sender = MessagesText.Unknown
         /\ Len(potential_sender) <= 30
         /\ \E i \in DOMAIN potential_sender : NameChar(potential_sender[i])
      THEN [sender |-> potential_sender, text |-> Slice(text, k + 2, Len(text)),
            users |-> {potential_sender}]
      ELSE [sender |-> sender, text |-> text, users |-> {}]

\* a formatter that starts every call on empty recent sets
FormatterStateFresh(fs, out, channels, users) ==
  [files |-> fs, output |-> out, recent_channels |-> {}, recent_users |-> {}]

\* the state process_event_message reads and writes
FormatterState(fs, out, channels, users) ==
  [files |-> fs, output |-> out, recent_channels |-> channels, recent_users |-> users]

\* process_event_message(mc, ev, append_output) at clock instant i, from the
\* state st: the state it leaves, its return value, and whether it raised.
\* A payload without 'type', 'channel_idx' or 'text' raises KeyError at the
\* line that reads the key, after the effects of the lines before it.
process_event_message(channels, ev, i, st) ==
  IF ev.type = "None"
  THEN [st EXCEPT !.output = Append(@, Red(MessagesText.EventNoMessage))]
       @@ [raised |-> FALSE, ret |-> FALSE]
  ELSE IF ev.type = "NO_MORE_MSGS"
  THEN st @@ [raised |-> FALSE, ret |-> FALSE]
  ELSE IF ev.type = "ERROR"
  THEN [st EXCEPT !.output = Append(@, Red(MessagesText.ErrorRetrieving \o Interpolated))]
       @@ [raised |-> FALSE, ret |-> FALSE]
  ELSE LET data == ev.payload IN
  IF "type" \notin DOMAIN data
  THEN st @@ [raised |-> TRUE, ret |-> FALSE]
  ELSE IF data.type = "CHAN"
  THEN IF "channel_idx" \notin DOMAIN data
       THEN st @@ [raised |-> TRUE, ret |-> FALSE]
       ELSE
       LET channel_name == ChannelNameOf(channels, data.channel_idx)
           who == SenderOf(data)
           st1 == [st EXCEPT !.recent_channels = @ \cup {channel_name},
                             !.recent_users = @ \cup who.users]
       IN  IF "text" \notin DOMAIN data
           THEN st1 @@ [raised |-> TRUE, ret |-> FALSE]
           ELSE
           LET ex == SenderFromText(who.sender, data.text)
               message == TranscriptLine(strftime(i), DisplayName(channel_name),
                                         ex.sender, ex.text)
           IN  [st1 EXCEPT
                  !.recent_users = @ \cup ex.users,
                  !.output = Append(@, ColoredLine(strftime(i), DisplayName(channel_name),
                                                   ex.sender, ex.text)),
                  !.files = save_to_history(@, channel_name, message)]
               @@ [raised |-> FALSE, ret |-> TRUE]
  ELSE IF data.type = "PRIV"
  THEN LET who == SenderOf(data)
           st1 == [st EXCEPT !.recent_users = @ \cup who.users]
       IN  IF "text" \notin DOMAIN data
           THEN st1 @@ [raised |-> TRUE, ret |-> FALSE]
           ELSE [st1 EXCEPT
                   !.output = Append(@, ColoredLine(strftime(i), <<"#">> \o MessagesText.private,
                                                    who.sender, data.text)),
                   !.files = save_to_history(@, MessagesText.private,
                                             TranscriptLine(strftime(i), <<"#">> \o MessagesText.private,
                                                            who.sender, data.text))]
                @@ [raised |-> FALSE, ret |-> TRUE]
  ELSE st @@ [raised |-> FALSE, ret |-> TRUE]

\* the characters of the model's names in code point order
CodePoints ==
  <<" ", "#", "-", ".">> \o DigitChar \o <<":", "@">> \o UpperChars \o <<"_">> \o LowerChars

Ord(c) == CHOOSE i \in DOMAIN CodePoints : CodePoints[i] = c

\* a < b for two str
StrLess(a, b) ==
  \E k \in 1..(Len(a) + 1) :
    /\ \A j \in 1..(k - 1) : j <= Len(b) /\ a[j] = b[j]
    /\ k <= Len(b)
    /\ k > Len(a) \/ Ord(a[k]) < Ord(b[k])

RECURSIVE sorted(_)
\* sorted(list(S)) for a set of str
sorted(S) ==
  IF S = {} THEN <<>>
  ELSE LET m == CHOOSE x \in S : \A y \in S \ {x} : StrLess(x, y)
       IN  <<m>> \o sorted(S \ {m})

RECURSIVE ListRepr(_)
\* the items of f"{names}" for a list of str, without the brackets
ListRepr(names) ==
  IF names = <<>> THEN <<>>
  ELSE <<"'">> \o Head(names) \o <<"'">>
       \o (IF Len(names) > 1 THEN <<",", " ">> ELSE <<>>) \o ListRepr(Tail(names))

\* show_available_channels_and_users: the two lines it appends
show_available_channels_and_users(channels, users) ==
  << Cyan(MessagesText.AvailableChannels \o <<"[">> \o ListRepr(sorted(channels)) \o <<"]">>),
     Cyan(MessagesText.RecentUsers \o <<"[">> \o ListRepr(sorted(users)) \o <<"]">>) >>

(***************************************************************************)
(* Spec: MeshChatApp.run, the message pipeline and the key handlers        *)
(***************************************************************************)
\* events the device delivers in one behaviour
MaxEvents == 2
\* lines the user enters in one behaviour
MaxInputs == 1
\* seconds the wall clock advances in one behaviour
MaxClock == 1

\* a channel message on index 0 that names its sender
EvChan ==
  [type |-> "CHANNEL_MSG_RECV",
   payload |-> [type |-> "CHAN", channel_idx |-> 0, name |-> <<"a", "l">>,
               text |-> <<"h", "i">>]]
\* a channel message whose payload has no text
EvBad ==
  [type |-> "CHANNEL_MSG_RECV", payload |-> [type |-> "CHAN", channel_idx |-> 0]]

Events == {EvChan, EvBad}

\* the channel tables the device may report
ChannelTables == {<<NameG>>}

\* the history directories the application may start on
HistoryDirs == {(NameG :> <<LineA, LineA>>), (NameG :> <<LineBadTime>>)}

\* the lines the user may enter
UserInputs ==
  {<<"/", "h", "e", "l", "p">>, <<"g", ":", " ", "h", "i">>, <<"h", "i">>}

Init ==
  /\ files0 \in HistoryDirs
  /\ files = files0
  /\ last = NoOp
  /\ output = <<>>
  /\ recent_channels = {}
  /\ recent_users = {}
  /\ now = 0
  /\ mc_channels = <<>>
  /\ run_pc = "start"
  /\ ui_pc = "idle"
  /\ exit_pc = "idle"
  /\ processing_messages = FALSE
  /\ message_queue = <<>>
  /\ consumer_pc = "idle"
  /\ enqueued = <<>>
  /\ dispatched = <<>>
  /\ stop_mark = NoMark
  /\ inputs = <<>>
  /\ SendIdle

\* a connection attempt whose failure is reported but does not end run
RunConnectGoesOn ==
  /\ run_pc = "start"
  /\ run_pc' = "query"
  /\ \/ output' = output \o <<AppText.Header, Cyan(AppText.Connecting \o Interpolated)>>
     \/ output' = output \o <<AppText.Header, Cyan(AppText.Connecting \o Interpolated),
                              Cyan(AppText.FailedConnect \o Interpolated)>>
  /\ UNCHANGED <<files, files0, last, recent_channels, recent_users, now, mc_channels,
                 ui_pc, exit_pc, processing_messages, message_queue, consumer_pc,
                 enqueued, dispatched, stop_mark, inputs, sendVars>>

\* the header and the connection attempt: on failure run returns
RunConnect ==
  /\ run_pc = "start"
  /\ \/ /\ run_pc' = "query"
        /\ output' = output \o <<AppText.Header, Cyan(AppText.Connecting \o Interpolated)>>
     \/ /\ run_pc' = "returned"
        /\ output' = output \o <<AppText.Header, Cyan(AppText.Connecting \o Interpolated),
                                 Cyan(AppText.FailedConnect \o Interpolated)>>
  /\ UNCHANGED <<files, files0, last, recent_channels, recent_users, now, mc_channels,
                 ui_pc, exit_pc, processing_messages, message_queue, consumer_pc,
                 enqueued, dispatched, stop_mark, inputs, sendVars>>

\* send_device_query: an error response makes run return
RunQuery ==
  /\ run_pc = "query"
  /\ \/ /\ run_pc' = "channels"
        /\ output' = Append(output, Cyan(AppText.ConnectedTo \o Interpolated))
     \/ /\ run_pc' = "returned"
        /\ output' = Append(output, Cyan(AppText.ErrorQuery \o Interpolated))
  /\ UNCHANGED <<files, files0, last, recent_channels, recent_users, now, mc_channels,
                 ui_pc, exit_pc, processing_messages, message_queue, consumer_pc,
                 enqueued, dispatched, stop_mark, inputs, sendVars>>

\* the names of a channel table, each also with a leading '#'
TableNames(table) ==
  UNION {{table[k], DisplayName(table[k])} : k \in {j \in DOMAIN table : table[j] # <<>>}}

\* ensure_contacts and the get_channel loop: the table is stored and its
\* names are added to recent_channels, or an exception leaves it unset
RunChannels ==
  /\ run_pc = "channels"
  /\ \/ \E table \in ChannelTables :
          /\ mc_channels' = table
          /\ recent_channels' = recent_channels \cup TableNames(table)
          /\ output' = Append(output, Cyan(AppText.Loaded \o IntToStr(Len(table)) \o AppText.channels))
     \/ /\ output' = Append(output, Cyan(AppText.ErrorLoadingChannels \o Interpolated))
        /\ UNCHANGED <<mc_channels, recent_channels>>
  /\ run_pc' = "history"
  /\ UNCHANGED <<files, files0, last, recent_users, now, ui_pc, exit_pc,
                 processing_messages, message_queue, consumer_pc, enqueued, dispatched,
                 stop_mark, inputs, sendVars>>

\* clean_history_files, then load_all_history into the output view; an
\* exception of load_all_history leaves run
RunHistory ==
  /\ run_pc = "history"
  /\ \E order \in Orders(DOMAIN files) :
     \E cleaned \in {clean_history_files(files)} :
     \E r \in {load_all_history(cleaned, order,
                                <<Clock(now)[1], Clock(now)[2], Clock(now)[3]>>)} :
       /\ files' = cleaned
       /\ output' = Append(output, Cyan(AppText.LoadingHistory)) \o r.emitted
       /\ recent_channels' = recent_channels \cup r.channels
       /\ recent_users' = recent_users \cup r.users
       /\ run_pc' = IF r.raised THEN "crashed" ELSE "subscribe"
  /\ UNCHANGED <<files0, last, now, mc_channels, ui_pc, exit_pc, processing_messages,
                 message_queue, consumer_pc, enqueued, dispatched, stop_mark, inputs,
                 sendVars>>

\* load_device_history and the two mc.subscribe calls
RunSubscribe ==
  /\ run_pc = "subscribe"
  /\ run_pc' = "subscribed"
  /\ UNCHANGED <<histVars, mc_channels, ui_pc, exit_pc, processing_messages,
                 message_queue, consumer_pc, enqueued, dispatched, stop_mark, inputs,
                 sendVars>>

\* start_auto_message_fetching has returned: the flag is set, ui_task and
\* msg_task are created and run waits in gather
RunStartTasks ==
  /\ run_pc = "subscribed"
  /\ processing_messages' = TRUE
  /\ ui_pc' = "running"
  /\ consumer_pc' = "loop"
  /\ run_pc' = "gather"
  /\ UNCHANGED <<histVars, mc_channels, exit_pc, message_queue, enqueued, dispatched,
                 stop_mark, inputs, sendVars>>

\* a callback that is subscribed before the history is replayed
HandleMessageBeforeHistory(ev) ==
  /\ run_pc \in {"history", "subscribe", "subscribed", "gather", "closing"}
  /\ exit_pc # "done"
  /\ Len(enqueued) < MaxEvents
  /\ message_queue' = Append(message_queue, ev)
  /\ enqueued' = Append(enqueued, ev)
  /\ UNCHANGED <<histVars, mc_channels, run_pc, ui_pc, exit_pc, processing_messages,
                 consumer_pc, dispatched, stop_mark, inputs, sendVars>>

\* a callback that drops the events delivered before the consumer runs
HandleMessageWhenRunning(ev) ==
  /\ run_pc \in {"subscribed", "gather", "closing"}
  /\ exit_pc # "done"
  /\ Len(enqueued) < MaxEvents
  /\ message_queue' = IF processing_messages THEN Append(message_queue, ev)
                      ELSE message_queue
  /\ enqueued' = Append(enqueued, ev)
  /\ UNCHANGED <<histVars, mc_channels, run_pc, ui_pc, exit_pc, processing_messages,
                 consumer_pc, dispatched, stop_mark, inputs, sendVars>>

\* handle_message: the subscription callback puts the event in the queue
HandleMessage(ev) ==
  /\ run_pc \in {"subscribed", "gather", "closing"}
  /\ exit_pc # "done"
  /\ Len(enqueued) < MaxEvents
  /\ message_queue' = Append(message_queue, ev)
  /\ enqueued' = Append(enqueued, ev)
  /\ UNCHANGED <<histVars, mc_channels, run_pc, ui_pc, exit_pc, processing_messages,
                 consumer_pc, dispatched, stop_mark, inputs, sendVars>>

\* a loop condition that also holds while events are queued
loop_condition_drains(flag, queue) == flag \/ queue # <<>>

\* while self.processing_messages
loop_condition(flag, queue) == flag

\* the newest item of the queue
queue_get_newest(queue) ==
  [item |-> queue[Len(queue)], rest |-> SubSeq(queue, 1, Len(queue) - 1)]

\* asyncio.Queue.get on a non-empty queue: the oldest item
queue_get(queue) == [item |-> Head(queue), rest |-> Tail(queue)]

\* a consumer that an exception of the dispatch ends
after_dispatch_propagates(raised) == IF raised THEN "exited" ELSE "loop"

\* where the consumer goes after a dispatch: except Exception prints the
\* error and the loop goes on
after_dispatch(raised) == "loop"

\* process_message_queue tests the flag: it waits on the queue or returns
ConsumerTest ==
  /\ consumer_pc = "loop"
  /\ consumer_pc' = IF loop_condition(processing_messages, message_queue)
                    THEN "waiting" ELSE "exited"
  /\ UNCHANGED <<histVars, mc_channels, run_pc, ui_pc, exit_pc, processing_messages,
                 message_queue, enqueued, dispatched, stop_mark, inputs, sendVars>>

\* wait_for(queue.get()) returns an item: process_event_message formats it
\* into the output view and the history, task_done, back to the test
ConsumerReceive ==
  /\ consumer_pc = "waiting"
  /\ message_queue # <<>>
  /\ \E t \in now..MaxClock :
     \E g \in {queue_get(message_queue)} :
     \E r \in {process_event_message(
                 mc_channels, g.item, Clock(t),
                 FormatterState(files, output, recent_channels, recent_users))} :
       /\ now' = t
       /\ message_queue' = g.rest
       /\ dispatched' = Append(dispatched, g.item)
       /\ files' = r.files
       /\ output' = r.output
       /\ recent_channels' = r.recent_channels
       /\ recent_users' = r.recent_users
       /\ consumer_pc' = after_dispatch(r.raised)
  /\ UNCHANGED <<files0, last, mc_channels, run_pc, ui_pc, exit_pc, processing_messages,
                 enqueued, stop_mark, inputs, sendVars>>

\* wait_for times out after 0.5 s on an empty queue: back to the test
ConsumerTimeout ==
  /\ consumer_pc = "waiting"
  /\ message_queue = <<>>
  /\ consumer_pc' = "loop"
  /\ UNCHANGED <<histVars, mc_channels, run_pc, ui_pc, exit_pc, processing_messages,
                 message_queue, enqueued, dispatched, stop_mark, inputs, sendVars>>

\* text matches ^([^:]+):\s*(.+)$ (text is stripped and has no line break)
ComposeMatch(text) ==
  LET k == RunLength(text, Range(text) \ {":"})
  IN  k > 0 /\ Len(text) >= k + 2

\* match.group(1).strip(): the text before the first colon
ComposeTarget(text) ==
  strip(Slice(text, 1, RunLength(text, Range(text) \ {":"})))

\* match.group(2).strip(): the text behind the first colon
ComposeText(text) ==
  strip(Slice(text, RunLength(text, Range(text) \ {":"}) + 2, Len(text)))

\* async def send_message(mc, channel_input, text, append_output_callback=None)
send_message_signature ==
  [parameters |-> <<"mc", "channel_input", "text", "append_output_callback">>,
   required |-> 3]

\* Python binds the arguments of a call to the parameters: no more
\* positional arguments than parameters, every keyword names a parameter no
\* positional argument fills, and every parameter without a default is
\* filled; otherwise the call raises TypeError and no coroutine is made
CallBinds(signature, call) ==
  /\ call.positional <= Len(signature.parameters)
  /\ call.keywords \subseteq
       {signature.parameters[i] :
          i \in (call.positional + 1)..Len(signature.parameters)}
  /\ \A i \in 1..signature.required :
       i <= call.positional \/ signature.parameters[i] \in call.keywords

\* send_message(self.mc, target, message_text, self.append_output, self)
handle_user_input_call == [positional |-> 5, keywords |-> {}]

\* send_message(mc, channel_part, message_text, app_instance=app_instance,
\*              timeout=60) of the line-input handler
input_handler_call ==
  [positional |-> 3, keywords |-> {"app_instance", "timeout"}]

\* asyncio.create_task(send_message(...)): the send_message calls a compose
\* input schedules on the event loop
create_task(call, channel_input, text) ==
  IF CallBinds(send_message_signature, call)
  THEN <<[channel_input |-> channel_input, text |-> text, pc |-> "scheduled"]>>
  ELSE <<>>

\* Enter: handle_user_input on the stripped text of the input field
HandleUserInput(text) ==
  /\ ui_pc = "running"
  /\ Len(inputs) < MaxInputs
  /\ inputs' = Append(inputs, text)
  /\ output' =
       IF strip(text) = <<>> THEN Append(output, Cyan(AppText.Hint))
       ELSE IF lowerStr(strip(text)) = <<"/", "h", "e", "l", "p">>
       THEN output \o show_available_channels_and_users(recent_channels, recent_users)
       ELSE IF ComposeMatch(strip(text))
       THEN output   \* the send_message call itself shows nothing
       ELSE Append(output, Red(AppText.InvalidFormat))
  /\ sends' =
       IF /\ strip(text) # <<>>
          /\ lowerStr(strip(text)) # <<"/", "h", "e", "l", "p">>
          /\ ComposeMatch(strip(text))
       THEN sends \o create_task(handle_user_input_call,
                                 ComposeTarget(strip(text)), ComposeText(strip(text)))
       ELSE sends
  /\ UNCHANGED <<files, files0, last, recent_channels, recent_users, now, mc_channels,
                 run_pc, ui_pc, exit_pc, processing_messages, message_queue, consumer_pc,
                 enqueued, dispatched, stop_mark, sent>>

\* Ctrl-C or Ctrl-Q: the exit message, the flag is cleared, and the handler
\* waits for mc.disconnect()
ExitPress ==
  /\ ui_pc = "running"
  /\ exit_pc = "idle"
  /\ output' = Append(output, Cyan(AppText.ShuttingDown))
  /\ processing_messages' = FALSE
  /\ stop_mark' = [set |-> TRUE, queue |-> message_queue, count |-> Len(dispatched)]
  /\ exit_pc' = "disconnecting"
  /\ UNCHANGED <<files, files0, last, recent_channels, recent_users, now, mc_channels,
                 run_pc, ui_pc, message_queue, consumer_pc, enqueued, dispatched, inputs,
                 sendVars>>

\* mc.disconnect() of the key handler returns, or raises and the bare
\* except swallows it: event.app.exit() ends the user interface
ExitDisconnected ==
  /\ exit_pc = "disconnecting"
  /\ exit_pc' \in {"done", "failed"}
  /\ ui_pc' = "exited"
  /\ UNCHANGED <<histVars, mc_channels, run_pc, processing_messages, message_queue,
                 consumer_pc, enqueued, dispatched, stop_mark, inputs, sendVars>>

\* a finally block that sets the flag instead of clearing it
RunGatherDoneSetsFlag ==
  /\ run_pc = "gather"
  /\ ui_pc = "exited"
  /\ consumer_pc = "exited"
  /\ processing_messages' = TRUE
  /\ run_pc' = "closing"
  /\ UNCHANGED <<histVars, mc_channels, ui_pc, exit_pc, consumer_pc, message_queue,
                 enqueued, dispatched, stop_mark, inputs, sendVars>>

\* gather returns when ui_task and msg_task are done; finally clears the flag
RunGatherDone ==
  /\ run_pc = "gather"
  /\ ui_pc = "exited"
  /\ consumer_pc = "exited"
  /\ processing_messages' = FALSE
  /\ run_pc' = "closing"
  /\ UNCHANGED <<histVars, mc_channels, ui_pc, exit_pc, consumer_pc, message_queue,
                 enqueued, dispatched, stop_mark, inputs, sendVars>>

\* wait_for(disconnect_task, timeout=2.0): it returns, raises or times out,
\* and run returns
RunClose ==
  /\ run_pc = "closing"
  /\ run_pc' = "returned"
  /\ UNCHANGED <<histVars, mc_channels, ui_pc, exit_pc, processing_messages,
                 message_queue, consumer_pc, enqueued, dispatched, stop_mark, inputs,
                 sendVars>>

RunStep ==
  \/ RunConnect \/ RunQuery \/ RunChannels \/ RunHistory \/ RunSubscribe
  \/ RunStartTasks \/ RunGatherDone \/ RunClose

ConsumerStep == ConsumerTest \/ ConsumerReceive \/ ConsumerTimeout

Next ==
  \/ RunStep
  \/ ConsumerStep
  \/ \E ev \in Events : HandleMessage(ev)
  \/ \E text \in UserInputs : HandleUserInput(text)
  \/ ExitPress
  \/ ExitDisconnected

Spec == Init /\ [][Next]_vars

\* the steps the event loop schedules by itself are taken when they stay
\* possible: the consumer's, the start of the two tasks, the end of gather
\* and the bounded close. The device and the user are under no obligation
FairSpec ==
  /\ Spec
  /\ WF_vars(RunStartTasks)
  /\ WF_vars(RunGatherDone \/ RunClose)
  /\ WF_vars(ConsumerStep)

(***************************************************************************)
(* Claims on the message pipeline                                          *)
(***************************************************************************)
\* C4: the events given to process_event_message are, in order, the first
\* events handle_message has put in the queue: nothing is dispatched out of
\* order, whatever the producer, the user and the consumer have done
C4_DispatchInEnqueueOrder ==
  /\ Len(dispatched) <= Len(enqueued)
  /\ dispatched = SubSeq(enqueued, 1, Len(dispatched))

\* two different events have been dispatched, and the user has entered a line
C4_Witness ==
  /\ Len(dispatched) >= 2
  /\ dispatched[1] # dispatched[2]
  /\ inputs # <<>>

\* C5: while the pipeline is running the consumer loop is alive, also after
\* a dispatch that raised, and every event that was enqueued has been
\* dispatched or waits in the queue the loop serves
C5_ConsumerSurvivesErrors ==
  /\ (run_pc = "gather" /\ processing_messages) => consumer_pc \in {"loop", "waiting"}
  /\ enqueued = dispatched \o message_queue

\* process_event_message raises on ev in the current state
DispatchRaises(ev) ==
  process_event_message(mc_channels, ev, Clock(now),
                        FormatterState(files, output, recent_channels, recent_users)).raised

\* the dispatch of the first event raised, the second event has been
\* dispatched after it, and the pipeline is still running
C5_Witness ==
  /\ Len(dispatched) >= 2
  /\ DispatchRaises(dispatched[1])
  /\ processing_messages
  /\ consumer_pc = "loop"

\* C6 (as claimed): when run has returned, every event that was in the queue
\* when the stop signal was raised has been dispatched
C6_QueuedEventsDrained ==
  (stop_mark.set /\ run_pc = "returned")
    => Len(dispatched) >= stop_mark.count + Len(stop_mark.queue)

\* C6 (amended): after the stop signal the consumer dispatches at most one
\* more event, and once it has terminated every other event that was queued
\* when the signal was raised is still in the queue, undispatched
C6_StopLeavesQueuedEvents ==
  stop_mark.set =>
    /\ Len(dispatched) <= stop_mark.count + 1
    /\ consumer_pc = "exited" =>
         LET taken == Len(dispatched) - stop_mark.count
             left  == Slice(stop_mark.queue, taken + 1, Len(stop_mark.queue))
         IN  /\ Len(message_queue) >= Len(left)
             /\ Slice(message_queue, 1, Len(left)) = left

\* two events were queued when the stop signal was raised; the consumer has
\* dispatched one of them and terminated, and run has returned
C6_Witness ==
  /\ stop_mark.set
  /\ Len(stop_mark.queue) = 2
  /\ Len(dispatched) = stop_mark.count + 1
  /\ consumer_pc = "exited"
  /\ run_pc = "returned"
  /\ message_queue # <<>>

\* C7: after the exit gesture (Ctrl-C or Ctrl-Q) shutdown completes, whether
\* the device's disconnect returns, raises or never returns: the user
\* interface exits, the consumer terminates and run returns
C7_ShutdownCompletes == (exit_pc # "idle") ~> (run_pc = "returned")

(***************************************************************************)
(* MessageSender: send_message                                             *)
(***************************************************************************)
\* send_message calls in one behaviour of SpecSend
MaxSends == 2

\* mc.self_info.get('name', 'Me') of a device that reports no name
own_name == MessagesText.Me

\* the 0-based indices of the table entries channel_input names: the name
\* itself, the name behind a '#', or the name without its leading '#'
NameMatches(channels, channel_input) ==
  {idx \in 0..(Len(channels) - 1) :
     LET channel_name == channels[idx + 1] IN
     \/ channel_name = channel_input
     \/ <<"#">> \o channel_name = channel_input
     \/ /\ channel_name # <<>>
        /\ startswith(channel_name, <<"#">>)
        /\ Tail(channel_name) = channel_input}

\* a resolution that falls back to the first channel of the table
ResolveChannelOrFirst(channels, channel_input) ==
  IF NameMatches(channels, channel_input) # {}
  THEN [found |-> TRUE,
        idx |-> CHOOSE i \in NameMatches(channels, channel_input) :
                  \A j \in NameMatches(channels, channel_input) : i <= j]
  ELSE [found |-> TRUE, idx |-> 0]

\* a resolution that reads the target as an index before it looks at the names
ResolveChannelIndexFirst(channels, channel_input) ==
  IF /\ startswith(channel_input, <<"c", "h">>)
     /\ isdigit(Slice(channel_input, 3, Len(channel_input)))
  THEN [found |-> TRUE, idx |-> ToInt(Slice(channel_input, 3, Len(channel_input)))]
  ELSE IF isdigit(channel_input)
  THEN [found |-> TRUE, idx |-> ToInt(channel_input)]
  ELSE IF NameMatches(channels, channel_input) # {}
  THEN [found |-> TRUE,
        idx |-> CHOOSE i \in NameMatches(channels, channel_input) :
                  \A j \in NameMatches(channels, channel_input) : i <= j]
  ELSE [found |-> FALSE, idx |-> 0]

\* channel_idx of send_message: the first table entry channel_input names,
\* else N for "ch<N>", else N for "<N>", else None
ResolveChannel(channels, channel_input) ==
  IF NameMatches(channels, channel_input) # {}
  THEN [found |-> TRUE,
        idx |-> CHOOSE i \in NameMatches(channels, channel_input) :
                  \A j \in NameMatches(channels, channel_input) : i <= j]
  ELSE IF /\ startswith(channel_input, <<"c", "h">>)
          /\ isdigit(Slice(channel_input, 3, Len(channel_input)))
  THEN [found |-> TRUE, idx |-> ToInt(Slice(channel_input, 3, Len(channel_input)))]
  ELSE IF isdigit(channel_input)
  THEN [found |-> TRUE, idx |-> ToInt(channel_input)]
  ELSE [found |-> FALSE, idx |-> 0]

\* the locals of one send_message call
SendTask(channel_input, text, res, line, pc) ==
  [channel_input |-> channel_input, text |-> text,
   found |-> res.found, channel_idx |-> res.idx,
   line |-> line,            \* the outbound transcript line
   pc |-> pc,                \* "sending", "awaiting_ack" or "done"
   ret |-> IF res.found THEN "pending" ELSE "False",
   status_msg |-> "unset",
   outcome |-> IF res.found THEN "pending" ELSE "not_found",
   shown |-> <<>>,           \* what the call appended after the submission
   saves |-> IF res.found THEN 1 ELSE 0,   \* its save_to_history calls
   ack_of |-> 0,             \* the call whose message the ACK it received confirms
   acked |-> FALSE]          \* the device has confirmed the message of this call

\* send_message up to its first await: the target is resolved; when it is
\* not, two lines report it and the call returns False; when it is, the line
\* is shown, saved to the history file "#<channel>", the target is added to
\* recent_channels and send_chan_msg is issued
SendMessage(channel_input, text) ==
  /\ Len(sends) < MaxSends
  /\ \E res \in {ResolveChannel(mc_channels, channel_input)} :
     \E line \in {TranscriptLine(strftime(Clock(now)), DisplayName(channel_input),
                                 own_name, text)} :
       IF ~res.found
       THEN /\ output' =
                 output \o <<Red(MessagesText.ErrorChannel \o channel_input \o MessagesText.NotFound)>>
                 \o (IF mc_channels = <<>> THEN <<>>
                     ELSE <<Cyan(MessagesText.AvailableChannels \o <<"[">>
                                 \o ListRepr(SelectSeq(mc_channels, LAMBDA n : n # <<>>))
                                 \o <<"]">>)>>)
            /\ sends' = Append(sends, SendTask(channel_input, text, res, <<>>, "done"))
            /\ UNCHANGED <<files, recent_channels, sent>>
       ELSE /\ output' = Append(output, line)
            /\ files' = save_to_history(files, DisplayName(channel_input), line)
            /\ recent_channels' = recent_channels \cup {channel_input}
            /\ sent' = Append(sent, [task |-> Len(sends) + 1,
                                     channel_idx |-> res.idx, text |-> text])
            /\ sends' = Append(sends, SendTask(channel_input, text, res, line, "sending"))
  /\ UNCHANGED <<files0, last, recent_users, now, mc_channels, appVarsButTable>>

\* a call ends without an exception: send_message returns True
Finished(task, status_msg, outcome) ==
  [task EXCEPT !.pc = "done", !.ret = "True", !.status_msg = status_msg,
               !.outcome = outcome]

\* send_chan_msg returns: an event that is no ERROR makes the call wait for
\* an ACK; an ERROR event sets the status and the call returns
SendChanMsgReturns(i, res) ==
  /\ sends[i].pc = "sending"
  /\ sends' = [sends EXCEPT ![i] =
                 IF res = "OK" THEN [@ EXCEPT !.pc = "awaiting_ack"]
                 ELSE Finished(@, "ERROR", "error_response")]
  /\ UNCHANGED <<histVars, appVars, sent>>

\* the except branch: the line and the error are shown and the line is
\* saved again; this is where the call comes when send_chan_msg or
\* wait_for_event raises, and when send_chan_msg returns None (res.type of
\* the debug log raises AttributeError after the status was set)
SendRaises(i, outcome) ==
  /\ \/ sends[i].pc = "sending"
     \/ sends[i].pc = "awaiting_ack" /\ outcome = "raised"
  /\ output' = output \o <<sends[i].line, MessagesText.ErrorSending \o Interpolated>>
  /\ files' = save_to_history(files, DisplayName(sends[i].channel_input), sends[i].line)
  /\ sends' = [sends EXCEPT ![i] =
                 [@ EXCEPT !.pc = "done", !.ret = "True", !.outcome = outcome,
                           !.status_msg = IF outcome = "no_response" THEN "ERROR" ELSE @,
                           !.shown = <<sends[i].line, MessagesText.ErrorSending \o Interpolated>>,
                           !.saves = @ + 1]]
  /\ UNCHANGED <<files0, last, recent_channels, recent_users, now, appVars, sent>>

\* the device emits the ACK of the message of call i.  wait_for_event(
\* EventType.ACK, timeout=10) names no message, so the event ends the wait
\* of every call that is waiting: each of them is DELIVERED
AckArrives(i) ==
  /\ ~sends[i].acked
  /\ \/ sends[i].pc = "awaiting_ack"
     \/ sends[i].pc = "done" /\ sends[i].outcome \in {"ack", "ack_timeout"}
  /\ \E k \in DOMAIN sends : sends[k].pc = "awaiting_ack"
  /\ sends' = [k \in DOMAIN sends |->
                 [(IF sends[k].pc = "awaiting_ack"
                   THEN [Finished(sends[k], "DELIVERED", "ack") EXCEPT !.ack_of = i]
                   ELSE sends[k])
                  EXCEPT !.acked = (k = i) \/ @]]
  /\ UNCHANGED <<histVars, appVars, sent>>

\* wait_for_event(ACK, timeout=10) returns None
AckTimeout(i) ==
  /\ sends[i].pc = "awaiting_ack"
  /\ sends' = [sends EXCEPT ![i] = Finished(@, "TIMEOUT", "ack_timeout")]
  /\ UNCHANGED <<histVars, appVars, sent>>

\* the channel tables send_message may find: none, "g" and "#h", and a table
\* whose names read as indices: "ch2", "0" and "#0"
SendTables ==
  {<<>>, <<NameG, <<"#", "h">>>>, << <<"c", "h", "2">>, <<"0">>, <<"#", "0">> >>}

\* the calls of a behaviour, target and text; they fall within one second
\* of the wall clock
SendCalls ==
  {<< <<"g">>, <<"h", "i", " ">> >>,      \* "g", "hi ": the text ends with a blank
   << <<"#", "g">>, <<"h", "i">> >>,      \* "#g", "hi"
   << <<"h">>, <<"h", "i">> >>,           \* "h", "hi"
   << <<"x">>, <<"h", "i">> >>,           \* "x", "hi"
   << <<"c", "h", "7">>, <<"h", "i">> >>, \* "ch7", "hi"
   << <<"7">>, <<"h", "i">> >>,           \* "7", "hi"
   << <<"c", "h", "2">>, <<"h", "i">> >>, \* "ch2", "hi"
   << <<"0">>, <<"h", "i">> >>}           \* "0", "hi"

SendInit ==
  /\ files0 = <<>>
  /\ files = files0
  /\ last = NoOp
  /\ output = <<>>
  /\ recent_channels = {}
  /\ recent_users = {}
  /\ now = 0
  /\ mc_channels \in SendTables
  /\ AppIdle
  /\ SendIdle

SendNext ==
  \/ \E c \in SendCalls : SendMessage(c[1], c[2])
  \/ \E i \in DOMAIN sends, res \in {"OK", "ERROR"} : SendChanMsgReturns(i, res)
  \/ \E i \in DOMAIN sends, outcome \in {"raised", "no_response"} : SendRaises(i, outcome)
  \/ \E i \in DOMAIN sends : AckArrives(i)
  \/ \E i \in DOMAIN sends : AckTimeout(i)

SpecSend == SendInit /\ [][SendNext]_vars

(***************************************************************************)
(* Claims on send_message                                                  *)
(***************************************************************************)
\* name is a channel of the table, with or without a leading '#'
InTable(channels, name) ==
  \E k \in DOMAIN channels :
    \/ channels[k] = name
    \/ <<"#">> \o channels[k] = name
    \/ channels[k] = <<"#">> \o name

\* name reads as a channel index: "ch<digits>" or "<digits>"
IndexForm(name) ==
  \/ isdigit(name)
  \/ Len(name) > 2 /\ name[1] = "c" /\ name[2] = "h"
     /\ \A k \in 3..Len(name) : name[k] \in DigitChars

\* the send_chan_msg commands call i has issued
SentBy(i) == {k \in DOMAIN sent : sent[k].task = i}

\* C8 (as claimed): a call whose target is no channel of the table has
\* returned False and has issued no send command
C8_UnknownNameNotSent ==
  \A i \in DOMAIN sends :
    ~InTable(mc_channels, sends[i].channel_input)
      => sends[i].ret = "False" /\ SentBy(i) = {}

\* C8 (amended): a call returns False exactly when its target is no channel
\* of the table and does not read as a channel index either; such a call has
\* issued no send command and has saved nothing
C8_UnresolvedTargetNotSent ==
  \A i \in DOMAIN sends :
    /\ sends[i].ret = "False"
         <=> /\ ~InTable(mc_channels, sends[i].channel_input)
             /\ ~IndexForm(sends[i].channel_input)
    /\ sends[i].ret = "False"
         => sends[i].pc = "done" /\ SentBy(i) = {} /\ sends[i].saves = 0

\* with a table loaded, a call to a target outside it was rejected, and a
\* call to a target of the table was sent
C8_Witness ==
  /\ mc_channels # <<>>
  /\ \E i, j \in DOMAIN sends :
       /\ ~InTable(mc_channels, sends[i].channel_input)
       /\ sends[i].ret = "False"
       /\ SentBy(i) = {}
       /\ InTable(mc_channels, sends[j].channel_input)
       /\ SentBy(j) # {}
       /\ files # <<>>

\* C9: the step in which a call learns its delivery outcome (an ACK, an ACK
\* timeout, an error response or an exception) leaves every history file as
\* the submission wrote it
C9_OutcomeLeavesHistory ==
  [][\A i \in DOMAIN sends :
       (sends[i].pc # "done" /\ sends'[i].pc = "done") => files' = files]_vars

\* what the caller of send_message gets to see of a finished call: the
\* return value and what the call appended to the output after the submission
Report(i) == [ret |-> sends[i].ret, shown |-> sends[i].shown]

\* C10: two finished calls of which one got an error response, one an ACK
\* timeout or one an ACK report different delivery statuses
C10_StatusDistinguishesOutcomes ==
  \A i, j \in DOMAIN sends :
    ( /\ sends[i].pc = "done" /\ sends[j].pc = "done"
      /\ {sends[i].outcome, sends[j].outcome} \subseteq {"error_response", "ack_timeout", "ack"}
      /\ sends[i].outcome # sends[j].outcome )
    => Report(i) # Report(j)
(***************************************************************************)
(* Claims on compose input                                                 *)
(***************************************************************************)
\* text is compose input whose target names a channel of the loaded table,
\* with or without a leading '#'
ComposeNamesChannel(text) ==
  /\ ComposeMatch(strip(text))
  /\ NameMatches(mc_channels, ComposeTarget(strip(text))) # {}

\* the send command for the channel and the message of the compose input
\* text has been issued, and the outbound line is in the output view and in
\* a history file
ComposeIssued(text) ==
  /\ \E j \in DOMAIN sent :
       /\ sent[j].channel_idx =
            ResolveChannel(mc_channels, ComposeTarget(strip(text))).idx
       /\ sent[j].text = ComposeText(strip(text))
  /\ \E t \in 0..MaxClock :
     \E line \in {TranscriptLine(strftime(Clock(t)),
                                 DisplayName(ComposeTarget(strip(text))),
                                 own_name, ComposeText(strip(text)))} :
       /\ line \in Range(output)
       /\ \E f \in DOMAIN files : line \in Range(files[f])

\* C11: compose input "<target>: <message>" whose target names a channel of
\* the loaded table leads to the send command for that channel's index and
\* that text, and to the outbound line in the output view and in the history
C11_ComposeLeadsToSend ==
  \A text \in UserInputs :
    (text \in Range(inputs) /\ ComposeNamesChannel(text)) ~> ComposeIssued(text)

(***************************************************************************)
(* SpecFormat: process_event_message on the events a device can deliver    *)
(***************************************************************************)
\* process_event_message calls in one behaviour of SpecFormat
MaxFormats == 2

\* the channel tables of SpecFormat: none, and one with a plain name and a
\* name stored with its '#'
FormatTables == {<<>>, <<NameG, <<"#", "h">>>>}

\* the events handed to process_event_message: channel messages whose
\* sender comes from the name field, from the contact of the key prefix and
\* from the text, private messages whose sender is a key prefix without a
\* contact or unknown, the three events without a message, a payload of
\* another type and a payload without text
FormatEvents ==
  { EvChan,
    [type |-> "CHANNEL_MSG_RECV",
     payload |-> [type |-> "CHAN", channel_idx |-> 1, name |-> <<"a", "l">>,
                 pubkey_prefix |-> <<"k", "1">>, text |-> <<"h", "i">>]],
    [type |-> "CHANNEL_MSG_RECV",
     payload |-> [type |-> "CHAN", channel_idx |-> 0, name |-> <<>>,
                 pubkey_prefix |-> <<"k", "1">>, text |-> <<"h", "i">>]],
    [type |-> "CONTACT_MSG_RECV",
     payload |-> [type |-> "PRIV",
                 pubkey_prefix |-> <<"d","e","a","d","b","e","e","f","1","2","3","4","5","6">>,
                 text |-> <<"h", "i">>]],
    [type |-> "CONTACT_MSG_RECV",
     payload |-> [type |-> "PRIV", text |-> <<"a", "l", ":", " ", "h", "i">>]],
    [type |-> "CONTACT_MSG_RECV",
     payload |-> [type |-> "PRIV", name |-> <<"a", "l">>, pubkey_prefix |-> <<"k", "1">>,
                 text |-> <<"h", "i">>]],
    [type |-> "CHANNEL_MSG_RECV",
     payload |-> [type |-> "CHAN", channel_idx |-> 5,
                 text |-> <<"a", "l", ":", " ", "h", "i">>]],
    [type |-> "CHANNEL_MSG_RECV",            \* text "to al: hi"
     payload |-> [type |-> "CHAN", channel_idx |-> 0,
                 text |-> <<"t", "o", " ", "a", "l", ":", " ", "h", "i">>]],
    [type |-> "CHANNEL_MSG_RECV",            \* text "?: hi"
     payload |-> [type |-> "CHAN", channel_idx |-> 0,
                 text |-> <<"?", ":", " ", "h", "i">>]],
    [type |-> "CHANNEL_MSG_RECV",
     payload |-> [type |-> "CHAN", channel_idx |-> -1, name |-> <<"a", "l">>,
                 text |-> <<"h", "i">>]],
    [type |-> "None", payload |-> [none |-> TRUE]],
    [type |-> "NO_MORE_MSGS", payload |-> [none |-> TRUE]],
    [type |-> "ERROR", payload |-> [reason |-> "no_event_received"]],
    [type |-> "CONTACT_MSG_RECV", payload |-> [type |-> "ACK"]],
    EvBad }

\* the calls of the operation op made so far
CallsOf(op) == IF last.op = op THEN last.n ELSE 0

\* the channel table is loaded; recent_channels is empty (a direct call) or
\* holds the names of the table, as run leaves it
FormatInit ==
  /\ mc_channels \in FormatTables
  /\ recent_channels \in {{}, TableNames(mc_channels)}
  /\ recent_users = {}
  /\ files0 = <<>>
  /\ files = files0
  /\ last = NoOp
  /\ output = <<>>
  /\ now = 0
  /\ AppIdle
  /\ SendIdle

\* one call process_event_message(mc, ev, append_output)
ProcessEventMessage(ev) ==
  /\ CallsOf("format") < MaxFormats
  /\ \E t \in now..MaxClock :
     \E st \in {FormatterState(files, output, recent_channels, recent_users)} :
     \E r \in {process_event_message(mc_channels, ev, Clock(t), st)} :
       /\ now' = t
       /\ files' = r.files
       /\ output' = r.output
       /\ recent_channels' = r.recent_channels
       /\ recent_users' = r.recent_users
       /\ last' = [op |-> "format", n |-> CallsOf("format") + 1, ev |-> ev, at |-> Clock(t),
                   before |-> st, raised |-> r.raised, ret |-> r.ret]
  /\ UNCHANGED <<files0, mc_channels, appVarsButTable, sendVars>>

FormatNext == \E ev \in FormatEvents : ProcessEventMessage(ev)

SpecFormat == FormatInit /\ [][FormatNext]_vars

(***************************************************************************)
(* Claims on the message formatter                                         *)
(***************************************************************************)
\* the last call formatted a message of payload type t
Formatted(t) ==
  /\ last.op = "format"
  /\ last.ev.type \notin {"None", "NO_MORE_MSGS", "ERROR"}
  /\ "type" \in DOMAIN last.ev.payload
  /\ last.ev.payload.type = t
  /\ ~last.raised

\* text without the colour codes
Plain(text) ==
  SelectSeq(text, LAMBDA c : <<c>> \notin {ANSI_BCYAN, ANSI_GREEN, ANSI_BLUE, ANSI_BRED, ANSI_END})

\* the last line of the output view, the line a call has just rendered
Rendered == Plain(output[Len(output)])

\* line is in a history file
Persisted(line) == \E f \in DOMAIN files : line \in Range(files[f])

\* the last call formatted a CHAN event whose channel_idx has a stored name
StoredChannel ==
  /\ Formatted("CHAN")
  /\ last.ev.payload.channel_idx \in 0..(Len(mc_channels) - 1)
  /\ mc_channels[last.ev.payload.channel_idx + 1] # <<>>

C13_RecentSetsHoldChannelAndSender ==
  (Formatted("CHAN") \/ Formatted("PRIV")) =>
    \E m \in {HistoryLineMatch(Rendered)} :
      /\ m.ok
      /\ m.user \in recent_users
      /\ Formatted("CHAN") =>
           {m.channel, <<"#">> \o m.channel} \subseteq recent_channels

\* the sender the order name field, contact, key prefix, "Unknown" gives
OrderedSender(data) ==
  IF "name" \in DOMAIN data /\ data.name # <<>> THEN {data.name}
  ELSE IF "pubkey_prefix" \in DOMAIN data
  THEN IF \E c \in Contacts : startswith(c.public_key, data.pubkey_prefix)
       THEN {c.adv_name : c \in {k \in Contacts : startswith(k.public_key, data.pubkey_prefix)}}
       ELSE {SubSeq(data.pubkey_prefix, 1, 12)} \cup
            {s \in {data.pubkey_prefix} : Len(s) <= 12}
  ELSE {<<"U", "n", "k", "n", "o", "w", "n">>}

\* C14: the sender of a formatted line is the name field when it is not
\* empty, else the contact of the key prefix, else the first 12 characters
\* of the key prefix, else "Unknown" (which the text of a channel message
\* "Name: rest" may then replace by Name)
C14_SenderResolvedInOrder ==
  (Formatted("CHAN") \/ Formatted("PRIV")) =>
    \E m \in {HistoryLineMatch(Rendered)} :
    \E data \in {last.ev.payload} :
      /\ m.ok
      /\ \/ m.user \in OrderedSender(data)
         \/ /\ <<"U", "n", "k", "n", "o", "w", "n">> \in OrderedSender(data)
            /\ Formatted("CHAN")
            /\ startswith(data.text, m.user \o <<":", " ">>)

\* every branch of the order has produced a line: a name that won over a
\* contact match, and a key prefix cut to 12 characters
C14_Witness ==
  /\ Formatted("PRIV")
  /\ "pubkey_prefix" \in DOMAIN last.ev.payload
  /\ Len(last.ev.payload.pubkey_prefix) > 12
  /\ HistoryLineMatch(Rendered).user = SubSeq(last.ev.payload.pubkey_prefix, 1, 12)
  /\ \E i \in 1..(Len(output) - 1) :
       /\ HistoryLineMatch(Plain(output[i])).ok
       /\ HistoryLineMatch(Plain(output[i])).user = <<"a", "l">>
       /\ HistoryLineMatch(Plain(output[i])).channel = <<"h">>

\* the last call was given no message: no event, an ERROR or NO_MORE_MSGS
\* event, or a payload whose type is neither CHAN nor PRIV
NoMessageEvent ==
  /\ last.op = "format"
  /\ \/ last.ev.type \in {"None", "NO_MORE_MSGS", "ERROR"}
     \/ /\ "type" \in DOMAIN last.ev.payload
        /\ last.ev.payload.type \notin {"CHAN", "PRIV"}

\* C15: for no event, an ERROR event, a NO_MORE_MSGS event and a payload of
\* another type process_event_message does not raise, returns False, renders
\* at most a report that is no transcript line, and leaves the history files
\* and the recent sets as they were
C15_NoMessageIsNonSuccess ==
  NoMessageEvent =>
    /\ ~last.raised
    /\ last.ret = FALSE
    /\ files = last.before.files
    /\ recent_channels = last.before.recent_channels
    /\ recent_users = last.before.recent_users
    /\ \/ output = last.before.output
       \/ /\ Len(output) = Len(last.before.output) + 1
          /\ SubSeq(output, 1, Len(last.before.output)) = last.before.output
          /\ ~HistoryLineMatch(Rendered).ok

(***************************************************************************)
(* SpecParse: parse_message_timestamp on the lines of a history file       *)
(***************************************************************************)
\* parse_message_timestamp calls in one behaviour of SpecParse
MaxParses == 2

\* one directive of strftime, or the character itself
Directive(i, d) ==
  CASE d = "d" -> Pad2(i[3])
    [] d = "m" -> Pad2(i[2])
    [] d = "b" -> capitalize(MonthAbbr[i[2]])
    [] d = "B" -> capitalize(MonthName[i[2]])
    [] d = "y" -> Pad2(i[1] % 100)
    [] d = "Y" -> Pad2(i[1] \div 100) \o Pad2(i[1] % 100)
    [] d = "H" -> Pad2(i[4])
    [] d = "M" -> Pad2(i[5])
    [] d = "S" -> Pad2(i[6])
    [] OTHER -> <<d>>

RECURSIVE strftime_as(_, _)
\* the instant i rendered by strftime in one of the six formats
strftime_as(i, fmt) ==
  IF fmt = <<>> THEN <<>> ELSE Directive(i, Head(fmt)) \o strftime_as(i, Tail(fmt))

\* the instants that are rendered: a day above 12, a day that reads as a
\* month, a day equal to the month, a leap day, and years 1960 and 2060
ParseInstants ==
  { BaseInstant, <<2026, 1, 5, 0, 0, 0>>, <<2026, 9, 9, 9, 9, 9>>,
    <<2024, 2, 29, 23, 59, 59>>, <<1960, 1, 17, 22, 46, 29>>,
    <<2060, 12, 31, 1, 2, 3>> }

\* a transcript line with the bracket content stamp
Stamped(stamp) ==
  <<"[">> \o stamp \o <<"]", " ", "#", "g", ":", " ", "[", "a", "l", "]", " ", "h", "i">>

\* the lines given to parse_message_timestamp: every instant in every
\* format, time-only values in and out of range, bracket contents that are
\* no timestamp or need the hand-written branch, and lines without a
\* bracketed prefix at their start
ParseLines ==
  {Stamped(strftime_as(i, possible_formats[k])) :
     i \in ParseInstants, k \in DOMAIN possible_formats}
  \cup
  {Stamped(stamp) : stamp \in
     { <<"2","2",":","4","6">>,
       <<"9",":","0","5">>,
       <<"2","1",":","0","3",":","1","0">>,
       <<"2","5",":","0","0">>,
       <<"2","3",":","6","0">>,
       <<"1","2",":","3","0",":","9","9">>,
       <<"a">>,
       <<"1","7","-","J","a","n","-","6","0"," ","2","2",":","4","6",":","2","9"," ">>,
       <<"1","7","-","J","a","n","-","2","6"," ","2","2",":","4","6",":","2","9"," ">>,
       <<"3","1","-","F","e","b","-","2","6"," ","2","2",":","4","6",":","2","9">>,
       <<"1","7","-","J","a","n","-","2","6">> }}
  \cup
  { <<"j","u","n","k">>,
    <<"x"," ","[","2","2",":","4","6","]"," ","y">>,
    <<"[","2","2",":","4","6">>,
    <<"[","]"," ","x">>,
    <<>> }

\* no call has been made; the calendar day is one of Dates
ParseInit ==
  /\ files0 = <<>>
  /\ files = files0
  /\ last \in {[op |-> "none", today |-> today] : today \in Dates}
  /\ output = <<>>
  /\ recent_channels = {}
  /\ recent_users = {}
  /\ now = 0
  /\ mc_channels = <<>>
  /\ AppIdle
  /\ SendIdle

\* one call parse_message_timestamp(message_line)
ParseMessageTimestamp(message_line) ==
  /\ CallsOf("parse") < MaxParses
  /\ last' = [op |-> "parse", n |-> CallsOf("parse") + 1, message_line |-> message_line,
              today |-> last.today,
              result |-> parse_message_timestamp(message_line, last.today)]
  /\ UNCHANGED <<files, files0, output, recent_channels, recent_users, now, appVars,
                 sendVars>>

ParseNext == \E message_line \in ParseLines : ParseMessageTimestamp(message_line)

SpecParse == ParseInit /\ [][ParseNext]_vars

(***************************************************************************)
(* Claims on the timestamp parser                                          *)
(***************************************************************************)
\* C16: every call of parse_message_timestamp returns an instant or None,
\* it never raises; a line without a bracketed prefix at its start gives None
C16_ParseReturnsInstantOrNone ==
  last.op = "parse" =>
    /\ last.result.kind \in {"instant", "none"}
    /\ BracketContent(last.message_line) = <<>> => last.result = None

\* the years a two-digit year can stand for (%y of strptime)
TwoDigitYears == 1969..2068

\* C17: a line whose bracket content is an instant rendered in one of the
\* six formats parses to that instant (for the formats with a two-digit
\* year, an instant of the century the two digits stand for)
C17_RoundTrip ==
  last.op = "parse" =>
    \A i \in ParseInstants, k \in DOMAIN possible_formats :
      ( /\ last.message_line = Stamped(strftime_as(i, possible_formats[k]))
        /\ "y" \in Range(possible_formats[k]) => i[1] \in TwoDigitYears )
      => last.result = Instant(i)

\* the fields of the bracket content read as DD-Mon-YY HH:MM:SS
LegacyFields == StrpFields(possible_formats[1], BracketContent(last.message_line), <<>>)

\* C18: a line in the DD-Mon-YY format that parses gets the year 20YY when
\* YY is below 50 and 19YY when YY is 50 or above
C18_TwoDigitYearPivot ==
  (last.op = "parse" /\ LegacyFields.ok /\ last.result.kind = "instant") =>
    last.result.t[1] =
      IF LegacyFields.f["y"] < 50 THEN 2000 + LegacyFields.f["y"]
      ELSE 1900 + LegacyFields.f["y"]

\* the bracket content of the parsed line is HH:MM or HH:MM:SS, a time of day
TimeOfDay ==
  /\ last.op = "parse"
  /\ \E p \in {SplitOn(BracketContent(last.message_line), ":")} :
       /\ Len(p) \in {2, 3}
       /\ \A j \in DOMAIN p : isdigit(p[j])
       /\ Len(p[1]) \in {1, 2} /\ ToInt(p[1]) <= 23
       /\ Len(p[2]) = 2 /\ ToInt(p[2]) <= 59
       /\ Len(p) = 3 => (Len(p[3]) = 2 /\ ToInt(p[3]) <= 59)

\* C19: a line whose bracket content is a time of day HH:MM or HH:MM:SS
\* parses to the instant of that hour, minute and second (0 when absent) on
\* the current date
C19_TimeOnlyOnCurrentDate ==
  TimeOfDay =>
    \E p \in {SplitOn(BracketContent(last.message_line), ":")} :
      last.result =
        Instant(<<last.today[1], last.today[2], last.today[3], ToInt(p[1]), ToInt(p[2]),
                  IF Len(p) = 3 THEN ToInt(p[3]) ELSE 0>>)

\* a time without seconds has been parsed on a day that is not the day the
\* application was started
C19_Witness ==
  /\ TimeOfDay
  /\ Len(SplitOn(BracketContent(last.message_line), ":")) = 2
  /\ last.today # <<BaseInstant[1], BaseInstant[2], BaseInstant[3]>>
  /\ last.result.kind = "instant"
  /\ last.result.t[6] = 0

(***************************************************************************)
(* Claims on rejected compose input                                        *)
(***************************************************************************)
\* text is entered and is no compose input, or is compose input whose
\* target is no channel of the table and no channel index
RejectedInput(text) ==
  /\ strip(text) # <<>>
  /\ lowerStr(strip(text)) # <<"/", "h", "e", "l", "p">>
  /\ \/ ~ComposeMatch(strip(text))
     \/ ~ResolveChannel(mc_channels, ComposeTarget(strip(text))).found

\* C20: the step that handles malformed compose input, or compose input for
\* an unknown target channel, adds a report to the output view and leaves
\* the history files, the recent sets and the channel table as they were,
\* and no send command is issued
C20_RejectedInputReportedWithoutEffect ==
  [][\A text \in UserInputs :
       (HandleUserInput(text) /\ RejectedInput(text)) =>
         /\ Len(output') = Len(output) + 1
         /\ SubSeq(output', 1, Len(output)) = output
         /\ files' = files
         /\ recent_channels' = recent_channels
         /\ recent_users' = recent_users
         /\ mc_channels' = mc_channels
         /\ sent' = sent]_vars

(***************************************************************************)
(* Claims on history I/O errors                                            *)
(***************************************************************************)
\* no line of the directory fs makes parse_message_timestamp raise
AllLinesParse(fs, today) ==
  \A f \in DOMAIN fs : \A i \in DOMAIN fs[f] :
    parse_message_timestamp(strip(fs[f][i]), today).kind # "raise"

\* C21: a read error on one history file contributes no line of that file
\* and the parseable lines of the other files are emitted in chronological
\* order; no exception escapes save_to_history when the file system fails
C21_IOErrorsContained ==
  /\ (last.op = "load_read_error" /\ AllLinesParse(last.before, last.today)) =>
       /\ ~last.raised
       /\ last.emitted =
            ExpectedReplay([f \in DOMAIN last.before \ {last.bad} |-> last.before[f]],
                           last.order, last.today)
  /\ last.op = "save_error" => ~last.raised

(***************************************************************************)
(* config.py: the connection parameters kept in                           *)
(* ~/.config/meshcore/mesh-cli.json.  In SpecConfig the variable files is *)
(* that directory: file name |-> text lines; a configuration is a         *)
(* function from keys to values [str |-> s] or [int |-> n].               *)
(***************************************************************************)
MaxConfigCalls == 3

\* config_dir / "mesh-cli.json"
ConfigFile == <<"mesh-cli.json">>

S_host == <<"h", "o", "s", "t">>
S_port == <<"p", "o", "r", "t">>

\* a byte that is not valid UTF-8, as one pseudo-character
BadByte == "\\xff"

\* json.dump(config, f, indent=2), keys in insertion order (host, then port)
json_dump(config) ==
  LET keys == SelectSeq(<<S_host, S_port>>, LAMBDA k : k \in DOMAIN config)
      JsonLiteral(value) == IF "int" \in DOMAIN value THEN IntToStr(value.int)
                            ELSE <<"\"">> \o value.str \o <<"\"">>
      member(i) == <<" ", " ", "\"">> \o keys[i] \o <<"\"", ":", " ">>
                   \o JsonLiteral(config[keys[i]])
                   \o (IF i < Len(keys) THEN <<",">> ELSE <<>>)
  IN  IF keys = <<>> THEN << <<"{", "}">> >>
      ELSE << <<"{">> >> \o [i \in 1..Len(keys) |-> member(i)] \o << <<"}">> >>

\* one '"key": value' member of an object, read from its line; closing says
\* whether the line is the last member (which carries no comma)
JsonMember(line, closing) ==
  LET parts == SplitOn(line, "\"")
      tail == strip(parts[Len(parts)])
      comma == tail # <<>> /\ tail[Len(tail)] = ","
      body == IF comma THEN strip(Slice(tail, 1, Len(tail) - 1)) ELSE tail
      bad == [ok |-> FALSE, key |-> <<>>, value |-> [int |-> 0]]
  IN  IF Len(parts) \notin {3, 5} \/ strip(parts[1]) # <<>> \/ comma = closing
      THEN bad
      ELSE IF Len(parts) = 5
      THEN IF strip(parts[3]) = <<":">> /\ body = <<>>
           THEN [ok |-> TRUE, key |-> parts[2], value |-> [str |-> parts[4]]]
           ELSE bad
      ELSE IF startswith(body, <<":">>) /\ isdigit(strip(Slice(body, 2, Len(body))))
           THEN [ok |-> TRUE, key |-> parts[2],
                 value |-> [int |-> ToInt(strip(Slice(body, 2, Len(body))))]]
           ELSE bad

\* json.load(f) on the texts of the model: an object written one member per
\* line, the literals [] and null, or a text that is not JSON
json_load(lines) ==
  LET n == Len(lines)
      members == [i \in 1..(n - 2) |-> JsonMember(lines[i + 1], i = n - 2)]
  IN  IF \E i \in DOMAIN lines : BadByte \in Range(lines[i])
      THEN [kind |-> "raise", v |-> "UnicodeDecodeError"]
      ELSE IF lines = << <<"{", "}">> >> THEN [kind |-> "dict", v |-> <<>>]
      ELSE IF lines = << <<"[", "]">> >> THEN [kind |-> "list", v |-> <<>>]
      ELSE IF lines = << <<"n", "u", "l", "l">> >> THEN [kind |-> "None", v |-> <<>>]
      ELSE IF n >= 3 /\ lines[1] = <<"{">> /\ lines[n] = <<"}">>
              /\ \A i \in 1..(n - 2) : members[i].ok
      THEN [kind |-> "dict",
            v |-> [k \in {members[i].key : i \in 1..(n - 2)} |->
                     LET at == CHOOSE i \in 1..(n - 2) :
                                 /\ members[i].key = k
                                 /\ \A j \in 1..(n - 2) : members[j].key = k => j <= i
                     IN  members[at].value]]
      ELSE [kind |-> "raise", v |-> "JSONDecodeError"]

\* load_config(): fault is what the file system does to this call ("mkdir":
\* the configuration directory cannot be created; "open": open() fails)
load_config(fs, fault) ==
  IF fault = "mkdir" THEN [kind |-> "raise", v |-> "OSError"]
  ELSE IF ConfigFile \notin DOMAIN fs \/ fault = "open" THEN [kind |-> "dict", v |-> <<>>]
  ELSE IF json_load(fs[ConfigFile]).kind = "raise"
          /\ json_load(fs[ConfigFile]).v = "JSONDecodeError"
  THEN [kind |-> "dict", v |-> <<>>]
  ELSE json_load(fs[ConfigFile])

\* save_config(config): the directory afterwards and whether the call raised
save_config(fs, config, fault) ==
  IF fault = "mkdir" THEN [fs |-> fs, raised |-> TRUE, written |-> FALSE]
  ELSE IF fault = "open" THEN [fs |-> fs, raised |-> FALSE, written |-> FALSE]
  ELSE [fs |-> [f \in DOMAIN fs \cup {ConfigFile} |->
                  IF f = ConfigFile THEN json_dump(config) ELSE fs[f]],
        raised |-> FALSE, written |-> TRUE]

\* the configurations get_connection_params builds, and the empty one
Configs ==
  {<<>>} \cup
  {[k \in {S_host, S_port} |-> IF k = S_host THEN [str |-> h] ELSE [int |-> p]] :
     h \in {<<"1", "2", "7", ".", "0", ".", "0", ".", "1">>, <<"m", "c">>},
     p \in {5000, 4403}}

\* the directory before the program runs: no file, a file an earlier run
\* wrote, and files that are truncated, not UTF-8, or JSON but no object
ConfigInit ==
  /\ files0 \in {<<>>} \cup
       {[f \in {ConfigFile} |-> text] :
          text \in {json_dump(c) : c \in Configs}
                   \cup {SubSeq(json_dump(c), 1, 2) : c \in Configs \ {<<>>}}
                   \cup {<< <<"{">>, <<" ", " ", "\"", "h", "\"", ":", " ", "\"", BadByte, "\"">>,
                            <<"}">> >>,
                         << <<"[", "]">> >>, << <<"n", "u", "l", "l">> >>, <<>>}}
  /\ files = files0
  /\ last = NoOp
  /\ output = <<>>
  /\ recent_channels = {}
  /\ recent_users = {}
  /\ now = 0
  /\ mc_channels = <<>>
  /\ AppIdle
  /\ SendIdle

\* save_config(config) under a fault of the file system; the directory can
\* only fail to be created while it holds no file
SaveConfig(config, fault) ==
  /\ CallsOf("save_config") + CallsOf("load_config") < MaxConfigCalls
  /\ fault = "mkdir" => files = <<>>
  /\ \E r \in {save_config(files, config, fault)} :
       /\ files' = r.fs
       /\ last' = [op |-> "save_config", n |-> CallsOf("save_config") + CallsOf("load_config") + 1,
                   config |-> config, fault |-> fault, raised |-> r.raised,
                   written |-> r.written]
  /\ UNCHANGED <<files0, output, recent_channels, recent_users, now, appVars, sendVars>>

\* load_config(); after_save holds the configuration of the save_config call
\* that wrote the file immediately before, if any
LoadConfig(fault) ==
  /\ CallsOf("save_config") + CallsOf("load_config") < MaxConfigCalls
  /\ fault = "mkdir" => files = <<>>
  /\ last' = [op |-> "load_config", n |-> CallsOf("save_config") + CallsOf("load_config") + 1,
              fault |-> fault, before |-> files,
              after_save |-> IF last.op = "save_config" /\ last.written
                             THEN <<last.config>> ELSE <<>>,
              result |-> load_config(files, fault)]
  /\ UNCHANGED <<files, files0, output, recent_channels, recent_users, now, appVars,
                 sendVars>>

ConfigNext ==
  \/ \E config \in Configs, fault \in {"none", "open", "mkdir"} : SaveConfig(config, fault)
  \/ \E fault \in {"none", "open", "mkdir"} : LoadConfig(fault)

SpecConfig == ConfigInit /\ [][ConfigNext]_vars

\* the file holds a JSON text
ValidJson(fs) ==
  ConfigFile \in DOMAIN fs /\ json_load(fs[ConfigFile]).kind # "raise"

\* C22 (first half): load_config() right after a save_config(c) that wrote
\* the file returns a configuration equal to c
C22_SaveThenLoad ==
  (last.op = "load_config" /\ last.after_save # <<>> /\ last.fault = "none")
    => last.result = [kind |-> "dict", v |-> last.after_save[1]]

\* C22: save_config(c) followed by load_config() returns c, and load_config
\* never raises: it returns the empty configuration when the file is absent,
\* unreadable or not valid JSON
C22_ConfigRoundTrip ==
  /\ C22_SaveThenLoad
  /\ last.op = "load_config" =>
       /\ last.result.kind # "raise"
       /\ (~ValidJson(last.before) \/ last.fault = "open")
            => last.result = [kind |-> "dict", v |-> <<>>]
(***************************************************************************)
(* Claims on the history files of a channel                                *)
(***************************************************************************)
\* the history files that hold the transcript line of call i
FilesOfSend(i) == {f \in DOMAIN files : sends[i].line \in Range(files[f])}

\* C23: the outbound line of a submitted send is appended to the one history
\* file that process_event_message appends the inbound lines of the same
\* channel to, the file named after the channel
C23_OneFilePerChannel ==
  \A i \in DOMAIN sends :
    sends[i].found =>
      FilesOfSend(i) = {ChannelNameOf(mc_channels, sends[i].channel_idx)}
(***************************************************************************)
(* Claims on the sender heuristic and the channel of an inbound message    *)
(***************************************************************************)
\* s ends with the sender field "[<sender>] " and the text
EndsWithSenderAndText(s, sender, text) ==
  \E tail \in {<<"[">> \o sender \o <<"]", " ">> \o text} :
    Len(s) >= Len(tail) /\ SubSeq(s, Len(s) - Len(tail) + 1, Len(s)) = tail

\* text has the form "Name: rest" with a Name of 1 to 30 characters, each
\* an alphanumeric or one of '@', '.', '_', '-'
NameLikePrefix(text) ==
  \E k \in {FindColonSpace(text)} :
    /\ k > 1
    /\ k - 1 <= 30
    /\ \A i \in 1..(k - 1) : NameChar(text[i])

UnknownChannel ==
  /\ Formatted("CHAN")
  /\ \/ last.ev.payload.channel_idx \notin 0..(Len(mc_channels) - 1)
     \/ mc_channels[last.ev.payload.channel_idx + 1] = <<>>

\* C25: a CHAN event whose channel_idx has no entry in the channel table, or
\* an entry with an empty name, is rendered and saved under the channel
\* "ch<idx>"
C25_UnknownChannelSynthesized ==
  UnknownChannel =>
    \E ch \in {<<"c", "h">> \o IntToStr(last.ev.payload.channel_idx)} :
      /\ startswith(Rendered, <<"[">> \o strftime(last.at) \o <<"]", " ", "#">> \o ch
                              \o <<":", " ", "[">>)
      /\ ch \in DOMAIN files
      /\ Rendered \in Range(files[ch])
(***************************************************************************)
(* Claims on the resolution of a send target                               *)
(***************************************************************************)
\* the 0-based indices of the table entries whose name is the target, with
\* or without '#'
EntriesNamed(channel_input) ==
  {k \in 0..(Len(mc_channels) - 1) :
     \/ mc_channels[k + 1] = channel_input
     \/ <<"#">> \o mc_channels[k + 1] = channel_input
     \/ mc_channels[k + 1] = <<"#">> \o channel_input}

\* C26: a call resolves its target to the lowest index of the table entries
\* that carry the target as name, with or without '#'; when there is none,
\* to N for a target "ch<N>"; when it is not of that form, to N for a target
\* "<N>"; else the target is not found
C26_ResolutionOrder ==
  \A i \in DOMAIN sends :
    \E t \in {sends[i].channel_input} :
      IF EntriesNamed(t) # {}
      THEN /\ sends[i].found
           /\ sends[i].channel_idx \in EntriesNamed(t)
           /\ \A k \in EntriesNamed(t) : sends[i].channel_idx <= k
      ELSE IF Len(t) > 2 /\ t[1] = "c" /\ t[2] = "h"
              /\ \A k \in 3..Len(t) : t[k] \in DigitChars
      THEN sends[i].found /\ sends[i].channel_idx = ToInt(SubSeq(t, 3, Len(t)))
      ELSE IF t # <<>> /\ \A k \in DOMAIN t : t[k] \in DigitChars
      THEN sends[i].found /\ sends[i].channel_idx = ToInt(t)
      ELSE ~sends[i].found

\* the table holds names that read as indices: "ch2" went to the entry of
\* that name and not to index 2, "0" went to the lower of the two entries
\* named "0" and "#0", and a target that names no entry went to its index
C26_Witness ==
  /\ \E i, j \in DOMAIN sends :
       /\ sends[i].channel_input = <<"c", "h", "2">>
       /\ sends[i].found /\ sends[i].channel_idx = 0
       /\ sends[j].channel_input = <<"0">>
       /\ EntriesNamed(<<"0">>) = {1, 2}
       /\ sends[j].found /\ sends[j].channel_idx = 1
       /\ Len(sent) = 2
(***************************************************************************)
(* Claims on the lifecycle of the pipeline                                 *)
(***************************************************************************)
\* C27: once the stop signal has been raised no step puts an event in the
\* message queue
C27_NoEnqueueAfterStop ==
  [][stop_mark.set => enqueued' = enqueued]_vars

\* the lifecycle: 0 CREATED (no consumer started), 1 RUNNING (the flag is
\* set), 2 DRAINING (the flag is cleared, the consumer has not terminated),
\* 3 STOPPED (the consumer has terminated)
Phase ==
  IF consumer_pc = "idle" THEN 0
  ELSE IF processing_messages THEN 1
  ELSE IF consumer_pc # "exited" THEN 2
  ELSE 3

\* C28: no step moves the lifecycle backwards; the only step that sets the
\* processing flag is the one that starts the consumer from CREATED; and no
\* step dispatches an event after STOPPED
C28_LifecycleMovesForward ==
  [][/\ Phase' >= Phase
     /\ (~processing_messages /\ processing_messages')
          => (Phase = 0 /\ consumer_pc' = "loop")
     /\ Phase = 3 => dispatched' = dispatched]_vars

\* the pipeline went through every phase: it dispatched an event while it
\* ran, the stop signal found an event queued, and it has stopped with an
\* event left in the queue and run returned after a failed disconnect
C28_Witness ==
  /\ Phase = 3
  /\ run_pc = "returned"
  /\ exit_pc = "failed"
  /\ stop_mark.count >= 1
  /\ stop_mark.queue # <<>>
  /\ message_queue # <<>>

\* C29: once the stop flag is set the consumer has dispatched at most one
\* further event; its wait ends in a dispatch or a timeout that only leads
\* back to the test of the flag, the test only leads to termination, and a
\* terminated consumer stays terminated
C29_StopsAtNextStep ==
  [][stop_mark.set =>
       /\ Len(dispatched') <= stop_mark.count + 1
       /\ (consumer_pc = "waiting" /\ consumer_pc' # "waiting") => consumer_pc' = "loop"
       /\ (consumer_pc = "loop" /\ consumer_pc' # "loop") => consumer_pc' = "exited"
       /\ consumer_pc = "exited" => consumer_pc' = "exited"]_vars

\* the stop flag was set while the consumer waited with an event queued: it
\* has dispatched that event and terminated, and a later event is left
C29_Witness ==
  /\ stop_mark.set
  /\ stop_mark.queue # <<>>
  /\ Len(dispatched) = stop_mark.count + 1
  /\ dispatched[Len(dispatched)] = stop_mark.queue[1]
  /\ consumer_pc = "exited"
  /\ Len(message_queue) >= 1
(***************************************************************************)
(* Claims on a failing send                                                *)
(***************************************************************************)
\* C30: the step in which a send fails, by an error response or by an
\* exception of send_chan_msg, appends a failure message to the output view
\* and changes no other send_message call and not the consumer
C30_SendFailureReported ==
  [][\A i \in DOMAIN sends :
       ( /\ sends[i].pc # "done"
         /\ sends'[i].pc = "done"
         /\ sends'[i].outcome \in {"error_response", "raised", "no_response"} )
       => /\ \E k \in (DOMAIN output') \ (DOMAIN output) :
               startswith(output'[k], MessagesText.ErrorSending)
          /\ \A j \in (DOMAIN sends) \ {i} : sends'[j] = sends[j]
          /\ consumer_pc' = consumer_pc]_vars
(***************************************************************************)
(* Claims on the recent sets                                               *)
(***************************************************************************)
\* C31: recent_channels and recent_users are empty when the process starts,
\* and no step (the channel table, the dedupe and replay of the history, a
\* dispatched event, an entered line, /help, the exit key, the end of run)
\* removes an element from either of them
C31_RecentSetsGrow ==
  /\ recent_channels = {} /\ recent_users = {}
  /\ [][recent_channels \subseteq recent_channels' /\ recent_users \subseteq recent_users']_vars

\* both sets were filled by the replay, an event was dispatched after it, the
\* user asked for /help, and run has returned after the exit key
C31_Witness ==
  /\ recent_channels # {}
  /\ recent_users # {}
  /\ dispatched # <<>>
  /\ <<"/", "h", "e", "l", "p">> \in Range(inputs)
  /\ stop_mark.set
  /\ run_pc = "returned"

\* channel and sender of a line of the form "[<ts>] #<channel>: [<sender>]
\* <text>": the timestamp ends at the first "] #" of the line
CanonicalLine(msg) ==
  LET cand == {p \in 3..(Len(msg) - 2) :
                 msg[p] = "]" /\ msg[p + 1] = " " /\ msg[p + 2] = "#"}
  IN  IF msg = <<>> \/ msg[1] # "[" \/ cand = {} THEN NoMatch
      ELSE MatchTail(Slice(msg, (CHOOSE p \in cand : \A q \in cand : p <= q) + 3, Len(msg)))

\* the replayed lines of canonical form, as channel and sender
ReplayedCanonical ==
  {CanonicalLine(last.emitted[i]) : i \in DOMAIN last.emitted} \ {NoMatch}

\* C32: after load_all_history the recent sets hold, for every replayed line
\* "[<ts>] #<channel>: [<sender>] <text>", the channel with and without '#'
\* and the sender, and nothing else
C32_ReplayFillsRecentSets ==
  (last.op = "load" /\ ~last.raised) =>
    /\ recent_channels =
         UNION {{m.channel, <<"#">> \o m.channel} : m \in ReplayedCanonical}
    /\ recent_users = {m.user : m \in ReplayedCanonical}

\* C33: after send_message has accepted a message, recent_channels holds the
\* target channel with and without its '#' and recent_users holds the own
\* name of the device
C33_SendFillsRecentSets ==
  \A i \in DOMAIN sends :
    sends[i].found =>
      \E bare \in {IF startswith(sends[i].channel_input, <<"#">>)
                   THEN Tail(sends[i].channel_input) ELSE sends[i].channel_input} :
        /\ bare \in recent_channels
        /\ <<"#">> \o bare \in recent_channels
        /\ own_name \in recent_users

\* C34: a PRIV event is rendered as "[<ts>] #private: [<sender>] <text>",
\* with the sender the order name field, contact, key prefix, "Unknown"
\* gives and the text of the event as it came, and the line is in the
\* history file "private"
C34_PrivateLine ==
  Formatted("PRIV") =>
    \E sender \in OrderedSender(last.ev.payload) :
      /\ Rendered = <<"[">> \o strftime(last.at) \o <<"]", " ", "#">> \o MessagesText.private
                    \o <<":", " ", "[">> \o sender \o <<"]", " ">> \o last.ev.payload.text
      /\ MessagesText.private \in DOMAIN files
      /\ Rendered \in Range(files[MessagesText.private])
      /\ DOMAIN files \subseteq DOMAIN last.before.files \cup {MessagesText.private}

\* private messages came with a name and a known key, and without both: the
\* name won over the contact, and a text "al: hi" stayed as it was
C34_Witness ==
  /\ Formatted("PRIV")
  /\ Len(output) = 2
  /\ \E i, j \in DOMAIN output :
       /\ HistoryLineMatch(Plain(output[i])).user = <<"a", "l">>
       /\ HistoryLineMatch(Plain(output[j])).user = MessagesText.Unknown
       /\ Len(files[MessagesText.private]) = 2
  /\ "name" \in DOMAIN last.ev.payload
  /\ get_contact_by_key_prefix(last.ev.payload.pubkey_prefix) # {}
(***************************************************************************)
(* Claims on startup and on the running application                        *)
(***************************************************************************)
\* the output view reports that the connection could not be established
ConnectFailureReported == Cyan(AppText.FailedConnect \o Interpolated) \in Range(output)

\* C35: the step at which the connection attempt ends run reports the
\* failure in the output view; once it is reported run has returned with no
\* channel table queried, no history touched, no event taken from the device
\* and neither the user interface nor the consumer started; and while the
\* application runs and no exit is requested, no step (a dispatch that
\* raises, a rejected or failing input) ends run, the user interface or the
\* consumer
C35_OnlyConnectFailureIsFatal ==
  /\ [](ConnectFailureReported =>
          /\ run_pc = "returned"
          /\ mc_channels = <<>> /\ files = files0
          /\ enqueued = <<>> /\ dispatched = <<>>
          /\ ui_pc = "idle" /\ consumer_pc = "idle" /\ ~processing_messages)
  /\ [][/\ (run_pc = "start" /\ run_pc' = "returned") => ConnectFailureReported'
        /\ (run_pc = "gather" /\ ~stop_mark.set /\ ~stop_mark.set') =>
             /\ run_pc' = "gather"
             /\ ui_pc' = "running"
             /\ consumer_pc' \in {"loop", "waiting"}]_vars

\* the connection attempt has failed: the failure is the last line of the
\* output view and run has returned
C35_Witness ==
  /\ ConnectFailureReported
  /\ output[Len(output)] = Cyan(AppText.FailedConnect \o Interpolated)
  /\ run_pc = "returned"

\* C36: as long as no stop signal is raised, every event the subscription
\* callback received has been dispatched once or waits once in the queue,
\* in the order of arrival; the events that arrive before the consumer
\* starts are held in the queue; a delivery only appends the event to the
\* queue, a dispatch only takes its head, nothing else changes the queue,
\* and the consumer that serves the queue is alive
C36_ExactlyOnceWhileRunning ==
  /\ [](~stop_mark.set =>
          /\ enqueued = dispatched \o message_queue
          /\ run_pc = "subscribed" => (dispatched = <<>> /\ message_queue = enqueued)
          /\ run_pc = "gather" => consumer_pc \in {"loop", "waiting"})
  /\ [][~stop_mark.set' =>
          /\ enqueued' # enqueued =>
               /\ Len(enqueued') = Len(enqueued) + 1
               /\ message_queue' = Append(message_queue, enqueued'[Len(enqueued')])
               /\ dispatched' = dispatched
          /\ dispatched' # dispatched =>
               /\ message_queue # <<>>
               /\ dispatched' = Append(dispatched, Head(message_queue))
               /\ message_queue' = Tail(message_queue)
               /\ enqueued' = enqueued
          /\ message_queue' # message_queue =>
               (enqueued' # enqueued \/ dispatched' # dispatched)]_vars

\* two events were delivered and both have been dispatched, the first one
\* raising; no stop signal was raised and the consumer waits for more
C36_Witness ==
  /\ ~stop_mark.set
  /\ Len(enqueued) = 2
  /\ dispatched = enqueued
  /\ message_queue = <<>>
  /\ DispatchRaises(dispatched[1])
  /\ consumer_pc = "waiting"

\* the output view ends with the announcement of the replay followed by the
\* lines load_all_history emits for the directory fs
EndsWithReplayOf(fs) ==
  \E order \in Orders(DOMAIN fs) :
  \E r \in {load_all_history(fs, order, <<Clock(0)[1], Clock(0)[2], Clock(0)[3]>>)} :
    /\ ~r.raised
    /\ Len(output) > Len(r.emitted)
    /\ output[Len(output) - Len(r.emitted)] = Cyan(AppText.LoadingHistory)
    /\ Slice(output, Len(output) - Len(r.emitted) + 1, Len(output)) = r.emitted

\* C37: until run subscribes no event is enqueued or dispatched and no
\* consumer exists; when run is about to subscribe every history file is
\* deduplicated and the output view ends with the replay of the
\* deduplicated files; and the output view only grows at its end, so every
\* line of a live message stands behind every replayed line
C37_ReplayBeforeLiveMessages ==
  /\ [](run_pc \in {"start", "query", "channels", "history", "subscribe"} =>
          /\ enqueued = <<>> /\ dispatched = <<>> /\ message_queue = <<>>
          /\ consumer_pc = "idle" /\ ~processing_messages)
  /\ [](run_pc = "subscribe" =>
          /\ files = clean_history_files(files0)
          /\ EndsWithReplayOf(files))
  /\ [][/\ Len(output') >= Len(output)
        /\ Slice(output', 1, Len(output)) = output
        /\ run_pc' = "subscribed" => run_pc \in {"subscribe", "subscribed"}]_vars

\* a history file with a duplicated line was replayed as one line, and a
\* live message was rendered into the output view behind it
C37_Witness ==
  /\ files0 = (NameG :> <<LineA, LineA>>)
  /\ run_pc = "gather"
  /\ dispatched = <<EvChan>>
  /\ \E k \in DOMAIN output :
       /\ output[k] = Cyan(AppText.LoadingHistory)
       /\ Len(output) = k + 2
       /\ output[k + 1] = LineA
       /\ output[k + 2] # LineA

\* C38: a send is DELIVERED only by the ACK of its own message, and one ACK
\* makes at most one send DELIVERED
C38_AckOfOwnMessage ==
  /\ \A k \in DOMAIN sends : sends[k].outcome = "ack" => sends[k].ack_of = k
  /\ \A k1, k2 \in DOMAIN sends :
       (/\ sends[k1].outcome = "ack" /\ sends[k2].outcome = "ack"
        /\ sends[k1].ack_of = sends[k2].ack_of) => k1 = k2

====
